---- MODULE Spec2Model ----
(***************************************************************************)
(* State-machine model of the broker layer of freqtrade (NSE fork):        *)
(*   - the paper-trading engine   src/freqtrade/exchange/paperbroker.py    *)
(*   - the instrument classifier  src/freqtrade/enums/instrumenttype.py    *)
(*   - the lot-size rules         src/freqtrade/data/lot_size_manager.py   *)
(*   - the request throttle       src/freqtrade/exchange/rate_limiter.py   *)
(*                                                                         *)
(* Money is a whole number of 1/100000 INR (the floats of the code are     *)
(* modelled on inputs for which every product and quotient is exact);      *)
(* percentages are whole basis points (0.01 %).  Order amounts are whole   *)
(* units.  Time of the throttle is a whole number of 10 ms ticks.          *)
(***************************************************************************)
EXTENDS Integers, Sequences, FiniteSets, TLC

(***************************************************************************)
(* Generic helpers                                                         *)
(***************************************************************************)
INR(x) == x * 100000

Max2(a, b) == IF a >= b THEN a ELSE b

Abs(x) == IF x < 0 THEN 0 - x ELSE x

\* The empty mapping: a Python dict {}
EmptyMap == [k \in {} |-> 0]

\* dict.get(k, default)
Get(m, k, default) == IF k \in DOMAIN m THEN m[k] ELSE default

\* m[k] = v on a dict (insert or overwrite)
Put(m, k, v) == [x \in (DOMAIN m) \cup {k} |-> IF x = k THEN v ELSE m[x]]

\* x * bp / 10000 without leaving 32 bits; exact when PctExact(x, bp)
Pct(x, bp) == (x \div 10000) * bp + ((x % 10000) * bp) \div 10000

PctExact(x, bp) == ((x % 10000) * bp) % 10000 = 0

(***************************************************************************)
(* Symbols are sequences of characters                                     *)
(***************************************************************************)
Digits == {"0", "1", "2", "3", "4", "5", "6", "7", "8", "9"}

UpperLetters == <<"A","B","C","D","E","F","G","H","I","J","K","L","M",
                  "N","O","P","Q","R","S","T","U","V","W","X","Y","Z">>

LowerLetters == <<"a","b","c","d","e","f","g","h","i","j","k","l","m",
                  "n","o","p","q","r","s","t","u","v","w","x","y","z">>

IsUpperLetter(c) == \E i \in 1..Len(UpperLetters) : UpperLetters[i] = c

\* str.upper(), character by character
UpperChar(c) ==
    IF \E i \in 1..Len(LowerLetters) : LowerLetters[i] = c
    THEN UpperLetters[CHOOSE i \in 1..Len(LowerLetters) : LowerLetters[i] = c]
    ELSE c

Upper(s) == [i \in 1..Len(s) |-> UpperChar(s[i])]

\* str.endswith(suf)
EndsWith(s, suf) ==
    /\ Len(suf) <= Len(s)
    /\ SubSeq(s, Len(s) - Len(suf) + 1, Len(s)) = suf

\* sub in s
Contains(s, sub) ==
    \E i \in 1..(Len(s) - Len(sub) + 1) : SubSeq(s, i, i + Len(sub) - 1) = sub

\* s.split('/')[0]
BeforeSlash(s) ==
    IF \E i \in 1..Len(s) : s[i] = "/"
    THEN LET k == CHOOSE i \in 1..Len(s) :
                     s[i] = "/" /\ \A j \in 1..(i - 1) : s[j] # "/"
         IN  SubSeq(s, 1, k - 1)
    ELSE s

MonthNames == { <<"J","A","N">>, <<"F","E","B">>, <<"M","A","R">>, <<"A","P","R">>,
                <<"M","A","Y">>, <<"J","U","N">>, <<"J","U","L">>, <<"A","U","G">>,
                <<"S","E","P">>, <<"O","C","T">>, <<"N","O","V">>, <<"D","E","C">> }

IndexNames == { <<"N","I","F","T","Y">>,
                <<"B","A","N","K","N","I","F","T","Y">>,
                <<"F","I","N","N","I","F","T","Y">>,
                <<"M","I","D","C","P","N","I","F","T","Y">>,
                <<"S","E","N","S","E","X">> }

(***************************************************************************)
(* InstrumentType.from_symbol and its predicates                           *)
(***************************************************************************)
from_symbol(symbol) ==
    LET symbol_upper == Upper(symbol) IN
    IF EndsWith(symbol_upper, <<"C","E">>) THEN "CALL_OPTION"
    ELSE IF EndsWith(symbol_upper, <<"P","E">>) THEN "PUT_OPTION"
    ELSE IF \/ Contains(symbol_upper, <<"F","U","T">>)
            \/ \E month \in MonthNames : Contains(symbol_upper, month)
         THEN "FUTURES"
    ELSE IF \E index \in IndexNames : Contains(symbol_upper, index) THEN "INDEX"
    ELSE "EQUITY"

\* the members of the InstrumentType enum that from_symbol can return
InstrumentTypes == {"EQUITY", "INDEX", "FUTURES", "CALL_OPTION", "PUT_OPTION"}

is_derivative(t) == t \in {"FUTURES", "CALL_OPTION", "PUT_OPTION"}

requires_lot_size(t) == is_derivative(t)

(***************************************************************************)
(* LotSizeManager (freqtrade/data/lot_size_manager.py)                     *)
(***************************************************************************)
\* _default_lot_sizes: the tables a manager holds when user_data/lot_sizes.json
\* is absent (it is then written from these) -- pairs <<underlying, lot size>>
default_indices ==
    { <<<<"N","I","F","T","Y">>, 25>>,
      <<<<"B","A","N","K","N","I","F","T","Y">>, 15>>,
      <<<<"F","I","N","N","I","F","T","Y">>, 40>>,
      <<<<"M","I","D","C","P","N","I","F","T","Y">>, 75>>,
      <<<<"N","I","F","T","Y","N","E","X","T","5","0">>, 25>>,
      <<<<"S","E","N","S","E","X">>, 10>>,
      <<<<"B","A","N","K","E","X">>, 15>> }

default_stocks ==
    { <<<<"R","E","L","I","A","N","C","E">>, 250>>,
      <<<<"T","C","S">>, 150>>,
      <<<<"I","N","F","Y">>, 300>>,
      <<<<"H","D","F","C","B","A","N","K">>, 550>>,
      <<<<"I","C","I","C","I","B","A","N","K">>, 700>>,
      <<<<"S","B","I","N">>, 1500>>,
      <<<<"B","H","A","R","T","I","A","R","T","L">>, 1200>>,
      <<<<"I","T","C">>, 1600>>,
      <<<<"K","O","T","A","K","B","A","N","K">>, 400>>,
      <<<<"L","T">>, 225>> }

InTable(table, name) == \E e \in table : e[1] = name

Lookup(table, name) == (CHOOSE e \in table : e[1] = name)[2]

AllDigits(s) == \A i \in 1..Len(s) : s[i] \in Digits

\* re.search(r'\d+$', s).start(), 1-based; 0 when there is no match
StrikeMatchStart(s) ==
    IF Len(s) > 0 /\ s[Len(s)] \in Digits
    THEN CHOOSE i \in 1..Len(s) :
            /\ AllDigits(SubSeq(s, i, Len(s)))
            /\ (i = 1 \/ s[i - 1] \notin Digits)
    ELSE 0

\* does s[i..] match \d{1,2}[A-Z]{3}\d{2,4}$ as a whole
ExpiryMatchesAt(s, i) ==
    \E a \in 1..2 : \E b \in 2..4 :
        /\ i + a + 3 + b - 1 = Len(s)
        /\ AllDigits(SubSeq(s, i, i + a - 1))
        /\ \A j \in (i + a)..(i + a + 2) : IsUpperLetter(s[j])
        /\ AllDigits(SubSeq(s, i + a + 3, Len(s)))

\* re.search(r'\d{1,2}[A-Z]{3}\d{2,4}$', s).start(), 1-based; 0 when no match
ExpiryMatchStart(s) ==
    IF \E i \in 1..Len(s) : ExpiryMatchesAt(s, i)
    THEN CHOOSE i \in 1..Len(s) :
            /\ ExpiryMatchesAt(s, i)
            /\ \A j \in 1..(i - 1) : ~ExpiryMatchesAt(s, j)
    ELSE 0

_extract_base_symbol(symbol) ==
    LET sym == BeforeSlash(symbol) IN
    IF EndsWith(sym, <<"C","E">>) \/ EndsWith(sym, <<"P","E">>)
    THEN LET base0  == SubSeq(sym, 1, Len(sym) - 2)
             strike == StrikeMatchStart(base0)
             base1  == IF strike > 0 THEN SubSeq(base0, 1, strike - 1) ELSE base0
             expiry == ExpiryMatchStart(base1)
             base2  == IF expiry > 0 THEN SubSeq(base1, 1, expiry - 1) ELSE base1
         IN  Upper(base2)
    ELSE Upper(sym)

get_lot_size(symbol) ==
    LET base_symbol == _extract_base_symbol(symbol) IN
    IF InTable(default_indices, base_symbol) THEN Lookup(default_indices, base_symbol)
    ELSE IF InTable(default_stocks, base_symbol) THEN Lookup(default_stocks, base_symbol)
    ELSE 1

(***************************************************************************)
(* Paper broker: inputs and configuration                                  *)
(***************************************************************************)
\* Bounds of the model
MaxOrders == 2

MaxCandles == 2

\* exchange.pair_whitelist: an equity and a NIFTY option that have a CSV file each,
\* and a NIFTY option that has none (its prices are synthesized)
Pairs == {"RELIANCE/INR", "NIFTY25DEC24500CE/INR", "NIFTY24500CE"}

Chars(pair) ==
    CASE pair = "RELIANCE/INR"      -> <<"R","E","L","I","A","N","C","E","/","I","N","R">>
      [] pair = "NIFTY24500CE"      -> <<"N","I","F","T","Y","2","4","5","0","0","C","E">>
      [] pair = "NIFTY25DEC24500CE/INR" -> <<"N","I","F","T","Y","2","5","D","E","C","2","4","5","0","0","C","E","/","I","N","R">>

OrderTypes == {"market", "limit"}

Sides == {"buy", "sell"}

Amounts == {10, 30}

\* The rate of a limit order; a market order is given rate=None, written 0
\* (Python treats both alike in `rate if rate else`)
Rates == {INR(90)}

\* exchange.initial_balance / slippage_percent / commission_percent, the
\* percentages in basis points: 0.1 % slippage and 0.05 % commission
Configs ==
    { [initial_balance |-> INR(3000), slippage_bp |-> 10, commission_bp |-> 5] }

\* user_data/raw_data/RELIANCE_minute.csv: rows <<minute, open, high, low, close, volume>>
\* in INR; the datetime column is epoch + minute
RawRows ==
    << <<3, 98, 99, 97, 99, 10>>,
       <<4, 99, 101, 99, 101, 20>>,
       <<5, 101, 102, 100, 102, 30>>,
       <<6, 102, 103, 101, 101, 40>>,
       <<7, 101, 101, 99, 99, 50>>,
       <<8, 99, 100, 98, 100, 60>> >>

\* pd.read_csv plus df['timestamp'] = datetime in milliseconds since the epoch
CsvFrame(rows) ==
    [i \in 1..Len(rows) |->
        [timestamp |-> rows[i][1] * 60000,
         open      |-> INR(rows[i][2]),
         high      |-> INR(rows[i][3]),
         low       |-> INR(rows[i][4]),
         close     |-> INR(rows[i][5]),
         volume    |-> rows[i][6]]]

\* user_data/raw_data/NIFTY25DEC24500CE_minute.csv
RawRowsOption ==
    << <<7, 104, 104, 101, 102, 5>>,
       <<8, 102, 102, 100, 100, 15>> >>

\* The files of user_data/raw_data, by the pair their name stands for
RawData ==
    [pair \in {"RELIANCE/INR", "NIFTY25DEC24500CE/INR"} |->
        IF pair = "RELIANCE/INR" THEN CsvFrame(RawRows) ELSE CsvFrame(RawRowsOption)]

\* What _load_csv_data may find in user_data/raw_data when it runs again: the
\* files of the start, or no file at all
RawDataFiles == {RawData, EmptyMap}

\* user_data/raw_data of a run in which the files stay
FilesKept == {RawData}

\* Trade.get_open_trades() at the first fetch_balance: the open trades of the
\* trade database (<<>> also stands for a session that is not initialised)
TradeDatabases ==
    { <<>>, <<[pair |-> "RELIANCE/INR", amount |-> 10, open_rate |-> INR(100)]>> }

\* Prices the synthetic random walk may take; the first price of a pair is
\* random.uniform(100, 1000)
FirstPrices == {INR(100)}

PriceGrid == {INR(100), INR(100) + 50000, INR(102)}

\* fetch_ohlcv arguments: since = 0 and limit = 0 stand for None
Timeframes == {"5m"}

Sinces == {0}

Limits == {2}

VARIABLES
    config,              \* the exchange section of the configuration
    markets,             \* _markets (its keys)
    balance,             \* _balance['INR']
    orders,              \* _orders: order id -> order (ids are 1, 2, ... for the uuids)
    open_orders,         \* _open_orders (its keys)
    filled_orders,       \* _filled_orders (its keys)
    positions,           \* _positions: pair -> [amount, cost]
    trade_history,       \* _trade_history
    price_cache,         \* _price_cache: pair -> last price
    csv_data,            \* _csv_data: pair -> candle frame
    use_csv_data,        \* _use_csv_data
    positions_restored,  \* _positions_restored
    res                  \* the last call: its arguments and what it returned or raised

broker_vars == <<config, markets, balance, orders, open_orders, filled_orders, positions,
                 trade_history, price_cache, csv_data, use_csv_data,
                 positions_restored>>

NoReq == [ordertype |-> "", side |-> "", amount |-> 0, rate |-> 0]

MkRes(op, outcome, pair, id, price, req) ==
    [op |-> op, outcome |-> outcome, pair |-> pair, id |-> id, price |-> price,
     ordertype |-> req.ordertype, side |-> req.side, amount |-> req.amount,
     rate |-> req.rate, candles |-> <<>>]

\* the record of a fetch_ohlcv call: timeframe, since and limit, and the candles returned
MkOhlcvRes(pair, timeframe, since, limit, price, candles) ==
    [op |-> "fetch_ohlcv", outcome |-> "ok", pair |-> pair, id |-> 0, price |-> price,
     ordertype |-> timeframe, side |-> "", amount |-> limit, rate |-> since,
     candles |-> candles]

(***************************************************************************)
(* Paper broker: construction                                              *)
(***************************************************************************)
\* _load_csv_data: what it leaves in _csv_data and _price_cache
LoadedPriceCache(data) ==
    [pair \in {q \in DOMAIN data : Len(data[q]) > 0} |->
        data[pair][Len(data[pair])].close]

InitialBalance(cfg) ==
    [free |-> cfg.initial_balance, used |-> 0, total |-> cfg.initial_balance]

\* Paperbroker.__init__(config)
PaperbrokerInit ==
    /\ config \in Configs
    /\ markets = Pairs
    /\ balance = InitialBalance(config)
    /\ orders = <<>>
    /\ open_orders = {}
    /\ filled_orders = {}
    /\ positions = EmptyMap
    /\ trade_history = <<>>
    /\ csv_data = RawData
    /\ use_csv_data = (DOMAIN RawData # {})
    /\ price_cache = LoadedPriceCache(RawData)
    /\ positions_restored = FALSE
    /\ res = MkRes("init", "ok", "", 0, 0, NoReq)

(***************************************************************************)
(* Paper broker: pricing                                                   *)
(***************************************************************************)
\* random.uniform(-0.005, 0.005) applied to last_price, on the price grid
WalkPrices(last_price) ==
    {q \in PriceGrid : Abs(q - last_price) * 1000 <= last_price * 5}

\* Fault variant of _simulate_price: the candle data is ignored and every pair
\* follows the random walk
_simulate_price_walk(pair) ==
    { [price |-> new_price, cache |-> Put(price_cache, pair, new_price)] :
        new_price \in IF pair \in DOMAIN price_cache
                      THEN WalkPrices(price_cache[pair])
                      ELSE FirstPrices }

\* _simulate_price(pair): the possible outcomes [price returned, _price_cache after]
_simulate_price(pair) ==
    IF use_csv_data /\ pair \in DOMAIN csv_data
    THEN LET df == csv_data[pair] IN
         IF Len(df) > 0
         THEN { [price |-> df[Len(df)].close,
                 cache |-> Put(price_cache, pair, df[Len(df)].close)] }
         ELSE { [price |-> Get(price_cache, pair, INR(100)), cache |-> price_cache] }
    ELSE { [price |-> new_price, cache |-> Put(price_cache, pair, new_price)] :
             new_price \in IF pair \in DOMAIN price_cache
                           THEN WalkPrices(price_cache[pair])
                           ELSE FirstPrices }

_apply_slippage(price, side) ==
    LET slippage == Pct(price, config.slippage_bp) IN
    IF side = "buy" THEN price + slippage ELSE price - slippage

_calculate_commission(amount) == Pct(amount, config.commission_bp)

(***************************************************************************)
(* Paper broker: orders                                                    *)
(***************************************************************************)
\* InstrumentType.from_symbol(pair) for the pairs of the whitelist
PairInstrumentType == [pair \in Pairs |-> from_symbol(Chars(pair))]

\* LotSizeManager(config).get_lot_size(pair) for the pairs of the whitelist
PairLotSize == [pair \in Pairs |-> get_lot_size(Chars(pair))]

\* create_order, lot-size validation: the amount the order goes on with
\* (int() truncates; amounts are positive).  LotSizeManager can be imported, so
\* the validation is not skipped
NormalizedAmount(pair, amount) ==
    LET lot_size == PairLotSize[pair] IN
    IF requires_lot_size(PairInstrumentType[pair]) /\ amount % lot_size # 0
    THEN (amount \div lot_size) * lot_size
    ELSE amount

\* Fault variant of will_fill: orders rest instead of filling
will_fill_never == FALSE

\* create_order: "ALWAYS fill orders immediately"
will_fill == TRUE

ExecutionPrice(ordertype, side, rate, current_price) ==
    IF ordertype = "market"
    THEN _apply_slippage(current_price, side)
    ELSE IF rate # 0 THEN rate ELSE current_price

\* Fault variant of InsufficientFunds: the free balance is not looked at
InsufficientFunds_unchecked(side, total_cost, free) == FALSE

\* create_order: "Check balance for buy orders"
InsufficientFunds(side, total_cost, free) == side = "buy" /\ total_cost > free

\* the balance after a buy that fills at once
BuyFillBalance(bal, total_cost) == [bal EXCEPT !.free = @ - total_cost]

\* the balance after a sell that fills at once
SellFillBalance(bal, order_value, commission) ==
    [bal EXCEPT !.free = @ + (order_value - commission)]

\* the balance after a buy that stays open: funds are reserved
ReserveBalance(bal, total_cost) ==
    [bal EXCEPT !.free = @ - total_cost, !.used = @ + total_cost]

\* _positions after a buy fill
BuyFillPositions(pos, pair, amount, order_value) ==
    LET cur == Get(pos, pair, [amount |-> 0, cost |-> 0]) IN
    Put(pos, pair, [amount |-> cur.amount + amount, cost |-> cur.cost + order_value])

\* _positions after a sell fill
SellFillPositions(pos, pair, amount) ==
    IF pair \in DOMAIN pos
    THEN [pos EXCEPT ![pair].amount = @ - amount]
    ELSE pos

\* The arithmetic of an order is exact in the model's units
ExactOrder(ordertype, side, rate, current_price, amount) ==
    /\ ordertype = "market" => PctExact(current_price, config.slippage_bp)
    /\ PctExact(ExecutionPrice(ordertype, side, rate, current_price) * amount,
                config.commission_bp)

\* create_order after the lot-size validation: amt is the amount it goes on with
PlaceOrder(pair, ordertype, side, rate, req, instrument_type, amt) ==
    /\ instrument_type \in InstrumentTypes
    /\ IF requires_lot_size(instrument_type) /\ amt = 0
       THEN /\ res' = MkRes("create_order", "InvalidOrder", pair, 0, 0, req)
            /\ UNCHANGED broker_vars
       ELSE \E sp \in _simulate_price(pair) :
            LET current_price   == sp.price
                execution_price == ExecutionPrice(ordertype, side, rate, current_price)
                order_value     == execution_price * amt
                commission      == _calculate_commission(order_value)
                total_cost      == order_value + commission
                order_id        == Len(orders) + 1
                order == [id        |-> order_id,
                          status    |-> IF will_fill THEN "closed" ELSE "open",
                          symbol    |-> pair,
                          type      |-> ordertype,
                          side      |-> side,
                          price     |-> execution_price,
                          average   |-> IF will_fill THEN execution_price ELSE 0,
                          amount    |-> amt,
                          filled    |-> IF will_fill THEN amt ELSE 0,
                          remaining |-> IF will_fill THEN 0 ELSE amt,
                          cost      |-> order_value,
                          fee       |-> commission]
            IN
            /\ ExactOrder(ordertype, side, rate, current_price, amt)
            /\ price_cache' = sp.cache
            /\ IF InsufficientFunds(side, total_cost, balance.free)
               THEN /\ res' = MkRes("create_order", "InsufficientFunds", pair, 0,
                                    current_price, req)
                    /\ UNCHANGED <<config, positions_restored, markets, balance, orders, open_orders,
                                   filled_orders, positions, trade_history, csv_data,
                                   use_csv_data>>
               ELSE /\ orders' = Append(orders, order)
                    /\ IF order.status = "open"
                       THEN /\ open_orders' = open_orders \cup {order_id}
                            /\ balance' = IF side = "buy"
                                          THEN ReserveBalance(balance, total_cost)
                                          ELSE balance
                            /\ UNCHANGED <<filled_orders, positions>>
                       ELSE /\ filled_orders' = filled_orders \cup {order_id}
                            /\ IF side = "buy"
                               THEN /\ balance' = BuyFillBalance(balance, total_cost)
                                    /\ positions' =
                                         BuyFillPositions(positions, pair, amt, order_value)
                               ELSE /\ balance' =
                                         SellFillBalance(balance, order_value, commission)
                                    /\ positions' = SellFillPositions(positions, pair, amt)
                            /\ UNCHANGED open_orders
                    /\ trade_history' = Append(trade_history,
                           [order_id |-> order_id, pair |-> pair, side |-> side,
                            amount |-> amt, price |-> execution_price,
                            commission |-> commission])
                    /\ res' = MkRes("create_order", "ok", pair, order_id,
                                    current_price, req)
                    /\ UNCHANGED <<config, positions_restored, markets, csv_data, use_csv_data>>

\* create_order(pair, ordertype, side, amount, rate)
CreateOrder(pair, ordertype, side, amount, rate) ==
    /\ Len(orders) < MaxOrders
    /\ PlaceOrder(pair, ordertype, side, rate,
                  [ordertype |-> ordertype, side |-> side, amount |-> amount, rate |-> rate],
                  PairInstrumentType[pair], NormalizedAmount(pair, amount))

\* fetch_order(order_id, pair)
FetchOrder(order_id) ==
    /\ res' = IF order_id \in DOMAIN orders
              THEN MkRes("fetch_order", "ok", orders[order_id].symbol, order_id, 0, NoReq)
              ELSE MkRes("fetch_order", "InvalidOrder", "", 0, 0, NoReq)
    /\ UNCHANGED broker_vars

\* cancel_order(order_id, pair)
CancelOrder(order_id) ==
    IF order_id \notin DOMAIN orders
    THEN /\ res' = MkRes("cancel_order", "InvalidOrder", "", 0, 0, NoReq)
         /\ UNCHANGED broker_vars
    ELSE LET order == orders[order_id] IN
         IF order.status = "closed"
         THEN /\ res' = MkRes("cancel_order", "InvalidOrder", order.symbol, order_id,
                              0, NoReq)
              /\ UNCHANGED broker_vars
         ELSE LET reserved == order.cost + _calculate_commission(order.cost) IN
              /\ orders' = [orders EXCEPT ![order_id].status = "canceled"]
              /\ balance' = IF order.side = "buy"
                            THEN [balance EXCEPT !.free = @ + reserved,
                                                 !.used = @ - reserved]
                            ELSE balance
              /\ open_orders' = open_orders \ {order_id}
              /\ res' = MkRes("cancel_order", "ok", order.symbol, order_id, 0, NoReq)
              /\ UNCHANGED <<config, positions_restored, markets, filled_orders, positions, trade_history,
                             price_cache, csv_data, use_csv_data>>

(***************************************************************************)
(* Paper broker: market data                                               *)
(***************************************************************************)
\* fetch_ticker(pair): 'last' is recorded as res.price
FetchTicker(pair) ==
    \E sp \in _simulate_price(pair) :
        /\ price_cache' = sp.cache
        /\ res' = MkRes("fetch_ticker", "ok", pair, 0, sp.price, NoReq)
        /\ UNCHANGED <<config, positions_restored, markets, balance, orders, open_orders, filled_orders,
                       positions, trade_history, csv_data, use_csv_data>>

\* fetch_order_book(pair, limit): level 0 of asks and bids is last_price, recorded
\* as res.price
FetchOrderBook(pair) ==
    \E sp \in _simulate_price(pair) :
        /\ price_cache' = sp.cache
        /\ res' = MkRes("fetch_order_book", "ok", pair, 0, sp.price, NoReq)
        /\ UNCHANGED <<config, positions_restored, markets, balance, orders, open_orders, filled_orders,
                       positions, trade_history, csv_data, use_csv_data>>

RECURSIVE SortedSeq(_)
\* the elements of a set of numbers, ascending
SortedSeq(S) ==
    IF S = {} THEN <<>>
    ELSE LET m == CHOOSE x \in S : \A y \in S : x <= y
         IN  <<m>> \o SortedSeq(S \ {m})

\* Fault variant of FreqMinutes: every timeframe gets the default frequency
FreqMinutes_default(timeframe) == 5

\* freq_map.get(timeframe, '5T'), in minutes
FreqMinutes(timeframe) ==
    CASE timeframe = "1m"  -> 1
      [] timeframe = "3m"  -> 3
      [] timeframe = "5m"  -> 5
      [] timeframe = "10m" -> 10
      [] timeframe = "15m" -> 15
      [] timeframe = "30m" -> 30
      [] timeframe = "1h"  -> 60
      [] timeframe = "1d"  -> 1440
      [] OTHER             -> 5

MaxOf(S) == CHOOSE x \in S : \A y \in S : y <= x

MinOf(S) == CHOOSE x \in S : \A y \in S : x <= y

RECURSIVE SumVolume(_)
SumVolume(rows) ==
    IF rows = <<>> THEN 0 ELSE rows[1].volume + SumVolume(Tail(rows))

\* _resample_candles(df, timeframe): df.resample(freq).agg(first/max/min/last/sum)
\* .dropna() -- bins are epoch-aligned, labelled by their left edge, and a bin
\* without rows is dropped
_resample_candles(df, timeframe) ==
    LET width   == FreqMinutes(timeframe) * 60000
        Bin(r)  == (r.timestamp \div width) * width
        bins    == SortedSeq({Bin(df[i]) : i \in 1..Len(df)})
        Rows(b) == SelectSeq(df, LAMBDA r : Bin(r) = b)
    IN  [k \in 1..Len(bins) |->
            LET rows == Rows(bins[k]) IN
            [timestamp |-> bins[k],
             open      |-> rows[1].open,
             high      |-> MaxOf({rows[i].high : i \in 1..Len(rows)}),
             low       |-> MinOf({rows[i].low : i \in 1..Len(rows)}),
             close     |-> rows[Len(rows)].close,
             volume    |-> SumVolume(rows)]]

\* df.iloc[:n]
FirstRows(df, n) == SubSeq(df, 1, IF n < Len(df) THEN n ELSE Len(df))

\* df.iloc[-n:], n > 0
LastRows(df, n) == SubSeq(df, IF n < Len(df) THEN Len(df) - n + 1 ELSE 1, Len(df))

\* _fetch_ohlcv_from_csv(pair, timeframe, since, limit) on the frame of the pair
_fetch_ohlcv_from_csv(frame, timeframe, since, limit) ==
    LET lim == IF limit # 0 THEN limit ELSE 100
        candle_slice ==
            IF since # 0
            THEN FirstRows(SelectSeq(frame, LAMBDA r : r.timestamp >= since), lim)
            ELSE LastRows(frame, lim)
    IN  IF timeframe # "1m"
        THEN _resample_candles(candle_slice, timeframe)
        ELSE candle_slice

\* random.uniform(-0.02, 0.02) applied to base_price, on the price grid
CandleCloses(base_price) ==
    {q \in PriceGrid : Abs(q - base_price) * 100 <= base_price * 2}

RECURSIVE SyntheticCandles(_, _)
\* the candle lists the simulation branch of fetch_ohlcv can build from base_price:
\* each open is the previous close; the random high/low/volume factors are taken
\* at their lower end and the wall-clock timestamp is left out
SyntheticCandles(base_price, n) ==
    IF n = 0 THEN { <<>> }
    ELSE UNION { { <<[timestamp |-> 0,
                      open      |-> base_price,
                      high      |-> Max2(base_price, close_price),
                      low       |-> IF base_price <= close_price
                                    THEN base_price ELSE close_price,
                      close     |-> close_price,
                      volume    |-> 1000]>> \o rest :
                   rest \in SyntheticCandles(close_price, n - 1) } :
                 close_price \in CandleCloses(base_price) }

\* fetch_ohlcv(pair, timeframe, since, limit)
FetchOhlcv(pair, timeframe, since, limit) ==
    IF use_csv_data /\ pair \in DOMAIN csv_data
    THEN /\ res' = MkOhlcvRes(pair, timeframe, since, limit, 0,
                      _fetch_ohlcv_from_csv(csv_data[pair], timeframe, since, limit))
         /\ UNCHANGED broker_vars
    ELSE /\ limit \in 1..MaxCandles
         /\ \E sp \in _simulate_price(pair) :
            \E ohlcv \in SyntheticCandles(sp.price, limit) :
               /\ price_cache' = Put(sp.cache, pair, ohlcv[Len(ohlcv)].close)
               /\ res' = MkOhlcvRes(pair, timeframe, since, limit,
                                    ohlcv[Len(ohlcv)].close, ohlcv)
         /\ UNCHANGED <<config, positions_restored, markets, balance, orders, open_orders, filled_orders,
                        positions, trade_history, csv_data, use_csv_data>>

(***************************************************************************)
(* Paper broker: account                                                   *)
(***************************************************************************)
RECURSIVE RestoredPositions(_, _)
\* _restore_positions_from_db, the loop: every open trade is added to its position
RestoredPositions(pos, open_trades) ==
    IF open_trades = <<>> THEN pos
    ELSE LET trade == Head(open_trades)
             cur   == Get(pos, trade.pair, [amount |-> 0, cost |-> 0])
         IN  RestoredPositions(
                 Put(pos, trade.pair,
                     [amount |-> cur.amount + trade.amount,
                      cost   |-> cur.cost + trade.open_rate * trade.amount]),
                 Tail(open_trades))

RECURSIVE TotalCost(_, _)
\* sum(pos['cost'] for pos in self._positions.values()) over the pairs given
TotalCost(pos, pairs) ==
    IF pairs = {} THEN 0
    ELSE LET pair == CHOOSE q \in pairs : TRUE
         IN  pos[pair].cost + TotalCost(pos, pairs \ {pair})

\* _restore_positions_from_db, "Update balance to reflect used capital": the
\* balance after it, for the positions pos
RestoredBalance(bal, pos) ==
    LET total_used == TotalCost(pos, DOMAIN pos) IN
    IF total_used > 0
    THEN [bal EXCEPT !.used = total_used,
                     !.free = Max2(0, config.initial_balance - total_used)]
    ELSE bal

\* _restore_positions_from_db(): _positions and _balance['INR'] after it
_restore_positions_from_db(open_trades) ==
    IF open_trades = <<>>
    THEN [positions |-> positions, balance |-> balance]
    ELSE LET pos == RestoredPositions(positions, open_trades)
         IN  [positions |-> pos, balance |-> RestoredBalance(balance, pos)]

\* fetch_balance(): 'free' of INR is recorded as res.price.  The first call runs
\* _restore_positions_from_db on the open trades of the trade database
FetchBalance(open_trades) ==
    LET restored == IF positions_restored
                    THEN [positions |-> positions, balance |-> balance]
                    ELSE _restore_positions_from_db(open_trades)
    IN  /\ positions' = restored.positions
        /\ balance' = restored.balance
        /\ positions_restored' = TRUE
        /\ res' = MkRes("fetch_balance", "ok", "", 0, restored.balance.free, NoReq)
        /\ UNCHANGED <<config, markets, orders, open_orders, filled_orders,
                       trade_history, price_cache, csv_data, use_csv_data>>

\* reset(): the balance, the markets and the CSV data are set up again from the
\* files found; the order ledgers, the positions and the trade history are not
\* touched
Reset(files) ==
    /\ balance' = InitialBalance(config)
    /\ markets' = Pairs
    /\ csv_data' = files
    /\ use_csv_data' = (DOMAIN files # {})
    /\ price_cache' = LoadedPriceCache(files)
    /\ res' = MkRes("reset", "ok", "", 0, 0, NoReq)
    /\ UNCHANGED <<config, positions_restored, orders, open_orders, filled_orders,
                   positions, trade_history>>

\* clear_cache(): the caches are emptied and the CSV data loaded again from the
\* files found
ClearCache(files) ==
    /\ csv_data' = files
    /\ use_csv_data' = (DOMAIN files # {})
    /\ price_cache' = LoadedPriceCache(files)
    /\ res' = MkRes("clear_cache", "ok", "", 0, 0, NoReq)
    /\ UNCHANGED <<config, positions_restored, markets, balance, orders, open_orders,
                   filled_orders, positions, trade_history>>

(***************************************************************************)
(* RateLimiter (freqtrade/exchange/rate_limiter.py).  Time is counted in   *)
(* ticks of 10 ms, the size of the buffer _check_limit adds to a wait.     *)
(***************************************************************************)
\* Bounds of the model
MaxRequests == 5

MaxResets == 1

\* the threads that call one RateLimiter
Threads == {1, 2}

\* time.time() when the limiter is constructed, in ticks
StartTime == 10000000

\* the periods of the four windows, in ticks: 1.0, 60.0, 3600.0 and 86400.0 seconds
SecondPeriod == 100

MinutePeriod == 6000

HourPeriod == 360000

DayPeriod == 8640000

\* the 10 ms buffer of _check_limit, in ticks
Buffer == 1

\* RateLimiter(): no limit at all (None is written 0; the code tests truthiness)
Unlimited ==
    [requests_per_second |-> 0, requests_per_minute |-> 0, requests_per_hour |-> 0,
     requests_per_day |-> 0, min_request_interval |-> 0]

\* The policies a limiter is constructed with
RLConfigs ==
    { [Unlimited EXCEPT !.requests_per_second = 2, !.requests_per_minute = 3],
      [Unlimited EXCEPT !.requests_per_hour = 2, !.requests_per_day = 3],
      [Unlimited EXCEPT !.requests_per_second = 1, !.min_request_interval = 30],
      [Unlimited EXCEPT !.requests_per_second = 3],
      [Unlimited EXCEPT !.min_request_interval = 30] }

\* The limiters that reset() is tried on
ResetConfigs == { [Unlimited EXCEPT !.requests_per_second = 3] }

\* The time that passes before a thread's call reads the clock, in ticks
Gaps == {0, 1, SecondPeriod, MinutePeriod, HourPeriod}

\* By how much time.sleep oversleeps, in ticks
Oversleeps == {0, 1}

VARIABLES
    rl_config,           \* requests_per_second/minute/hour/day, min_request_interval
    now,                 \* the clock, time.time()
    request_times,       \* _request_times
    last_request_time,   \* _last_request_time
    lock,                \* _lock: 0 when free, else the thread that holds it
    pc,                  \* per thread: "idle", or inside wait_if_needed "sleeping"
                         \* (in time.sleep) or "recording" (about to record)
    wake,                \* per thread: the clock value its time.sleep ends at, or
                         \* its current_time when it does not sleep
    total_requests,      \* _total_requests
    total_wait_time,     \* _total_wait_time
    rate_limit_hits,     \* _rate_limit_hits
    recorded,            \* every timestamp ever appended to _request_times, in order
    calls,               \* every call so far, in the order the limits were evaluated:
                         \* its thread, its current_time and the wait_time it returns
    resets               \* how many times reset() was called

rl_vars == <<rl_config, now, request_times, last_request_time, lock, pc, wake,
             total_requests, total_wait_time, rate_limit_hits, recorded, calls,
             resets>>

\* RateLimiter.__init__(...)
RateLimiterInit(cfg) ==
    /\ rl_config = cfg
    /\ now = StartTime
    /\ request_times = <<>>
    /\ last_request_time = 0
    /\ lock = 0
    /\ pc = [th \in Threads |-> "idle"]
    /\ wake = [th \in Threads |-> 0]
    /\ total_requests = 0
    /\ total_wait_time = 0
    /\ rate_limit_hits = 0
    /\ recorded = <<>>
    /\ calls = <<>>
    /\ resets = 0

\* _cleanup_old_requests: the period of the longest configured window
MaxPeriod(cfg) ==
    IF cfg.requests_per_hour # 0 /\ cfg.requests_per_day = 0 THEN HourPeriod
    ELSE IF cfg.requests_per_minute # 0
            /\ ~(cfg.requests_per_hour # 0 \/ cfg.requests_per_day # 0) THEN MinutePeriod
    ELSE IF cfg.requests_per_second # 0
            /\ ~(cfg.requests_per_minute # 0 \/ cfg.requests_per_hour # 0
                 \/ cfg.requests_per_day # 0) THEN SecondPeriod
    ELSE DayPeriod

RECURSIVE PopLeftWhile(_, _)
\* while times and times[0] < cutoff_time: times.popleft()
PopLeftWhile(times, cutoff_time) ==
    IF times # <<>> /\ times[1] < cutoff_time
    THEN PopLeftWhile(Tail(times), cutoff_time)
    ELSE times

\* _cleanup_old_requests(current_time): _request_times afterwards
_cleanup_old_requests(cfg, times, current_time) ==
    PopLeftWhile(times, current_time - MaxPeriod(cfg))

\* Fault variant of LimitReached: the limit is taken for reached one request late
LimitReached_late(requests_in_period, limit) == requests_in_period > limit

\* requests_in_period >= limit, the test of _check_limit
LimitReached(requests_in_period, limit) == requests_in_period >= limit

\* _check_limit(current_time, period, limit): the wait it returns
_check_limit(times, current_time, period, limit) ==
    LET cutoff_time == current_time - period
        in_period   == {i \in 1..Len(times) : times[i] >= cutoff_time}
    IN  IF LimitReached(Cardinality(in_period), limit)
        THEN LET oldest_in_period ==
                     IF in_period = {} THEN current_time
                     ELSE MinOf({times[i] : i \in in_period})
                 wait_time == (oldest_in_period + period) - current_time
             IN  Max2(0, wait_time + Buffer)
        ELSE 0

\* Fault variant of IntervalWait: the minimum interval is not looked at
IntervalWait_none(cfg, last, current_time) == 0

\* wait_if_needed, "Check minimum interval": the wait it asks for
IntervalWait(cfg, last, current_time) ==
    IF cfg.min_request_interval > 0
       /\ current_time - last < cfg.min_request_interval
    THEN cfg.min_request_interval - (current_time - last)
    ELSE 0

\* wait_if_needed: the wait_time it arrives at before "Wait if needed"
WaitTime(cfg, times, last, current_time) ==
    LET interval_wait == IntervalWait(cfg, last, current_time)
        LimitWait(limit, period) ==
            IF limit # 0 THEN _check_limit(times, current_time, period, limit) ELSE 0
    IN  Max2(Max2(interval_wait,
                  Max2(LimitWait(cfg.requests_per_second, SecondPeriod),
                       LimitWait(cfg.requests_per_minute, MinutePeriod))),
             Max2(LimitWait(cfg.requests_per_hour, HourPeriod),
                  LimitWait(cfg.requests_per_day, DayPeriod)))

\* wait_if_needed, "Record request"
RecordRequest(times, current_time) ==
    /\ request_times' = Append(times, current_time)
    /\ last_request_time' = current_time
    /\ total_requests' = total_requests + 1
    /\ recorded' = Append(recorded, current_time)

\* Fault variant of LockAvailable: a caller does not wait for the lock
LockAvailable_always == TRUE

\* "with self._lock:" can be entered
LockAvailable == lock = 0

\* wait_if_needed from "with self._lock" up to "Wait if needed": thread th takes
\* the lock gap ticks from now, reads the clock, cleans up and evaluates the
\* limits; it then sleeps or goes on to record the request, holding the lock
WaitIfNeeded(th, gap) ==
    /\ pc[th] = "idle"
    /\ LockAvailable
    /\ Len(calls) < MaxRequests
    /\ now' = now + gap
    /\ lock' = th
    /\ LET current_time == now + gap
           times        == _cleanup_old_requests(rl_config, request_times, current_time)
           wait_time    == WaitTime(rl_config, times, last_request_time, current_time)
       IN  /\ request_times' = times
           /\ calls' = Append(calls, [thread |-> th, at |-> current_time,
                                     wait |-> wait_time])
           /\ IF wait_time > 0
              THEN /\ rate_limit_hits' = rate_limit_hits + 1
                   /\ total_wait_time' = total_wait_time + wait_time
                   /\ pc' = [pc EXCEPT ![th] = "sleeping"]
                   /\ wake' = [wake EXCEPT ![th] = current_time + wait_time]
              ELSE /\ pc' = [pc EXCEPT ![th] = "recording"]
                   /\ wake' = [wake EXCEPT ![th] = current_time]
                   /\ UNCHANGED <<rate_limit_hits, total_wait_time>>
    /\ UNCHANGED <<rl_config, last_request_time, total_requests, recorded, resets>>

\* wait_if_needed from the return of time.sleep: the clock is read again, the
\* request is recorded and the lock is released
WakeUp(th, oversleep) ==
    /\ pc[th] = "sleeping"
    /\ now' = Max2(now, wake[th] + oversleep)
    /\ RecordRequest(request_times, Max2(now, wake[th] + oversleep))
    /\ lock' = 0
    /\ pc' = [pc EXCEPT ![th] = "idle"]
    /\ wake' = [wake EXCEPT ![th] = 0]
    /\ UNCHANGED <<rl_config, rate_limit_hits, total_wait_time, calls, resets>>

\* wait_if_needed, "Record request", of a call that did not sleep: the request is
\* recorded at the current_time read on entry and the lock is released
RecordAndReturn(th) ==
    /\ pc[th] = "recording"
    /\ RecordRequest(request_times, wake[th])
    /\ lock' = 0
    /\ pc' = [pc EXCEPT ![th] = "idle"]
    /\ wake' = [wake EXCEPT ![th] = 0]
    /\ UNCHANGED <<rl_config, now, rate_limit_hits, total_wait_time, calls, resets>>

\* reset(): under the lock, the recorded requests and the counters are cleared
ResetLimiter ==
    /\ LockAvailable
    /\ rl_config \in ResetConfigs
    /\ resets < MaxResets
    /\ resets' = resets + 1
    /\ request_times' = <<>>
    /\ last_request_time' = 0
    /\ total_requests' = 0
    /\ total_wait_time' = 0
    /\ rate_limit_hits' = 0
    /\ UNCHANGED <<rl_config, now, lock, pc, wake, recorded, calls>>

(***************************************************************************)
(* Paper broker: one thread in create_order, another one reading           *)
(***************************************************************************)
\* create_order takes no lock, so a thread switch can fall between any two of
\* its statements.  Other threads call fetch_balance and get_positions.
VARIABLES
    fill,                \* the create_order call under way: pc names the statement
                         \* it executes next ("idle": no call under way), then its
                         \* local variables, the ledgers before and after it,
                         \* and whether the positions of the trade database
                         \* were restored while it ran
    seen,                \* what the last read of a reading thread returned,
                         \* with the ledgers before and after the fill it fell in
    reader,              \* per reading thread, the fetch_balance call under way:
                         \* pc names the statement it executes next, then the
                         \* open trades it was given and the sum of the costs
                         \* it has computed, what it has read so far, the place
                         \* of its loop (at) and of its dict iterator, and
                         \* whether a restore changed the ledgers since it read
                         \* the balance
    position_order       \* the keys of _positions in the order they were inserted

callers_vars == <<fill, seen, reader, position_order>>

\* the part of the ledgers that fetch_balance and get_positions return
Ledger(bal, pos) == [free |-> bal.free, positions |-> pos]

NoFill(ledger) ==
    [pc |-> "idle", pair |-> "", side |-> "", amount |-> 0, order_value |-> 0,
     commission |-> 0, total_cost |-> 0, order_id |-> 0, price |-> 0,
     current_price |-> 0, req |-> NoReq, before |-> ledger, after |-> ledger,
     restored |-> FALSE]

\* the threads that call fetch_balance
Readers == {1, 2}

NoRead ==
    [pc |-> "idle", open_trades |-> <<>>, old_cost |-> 0, total_used |-> 0, free |-> 0,
     used |-> 0, at |-> 0, held |-> EmptyMap, restored |-> FALSE]

CallersInit ==
    /\ fill = NoFill(Ledger(balance, positions))
    /\ seen = [op |-> "none", outcome |-> "ok", restored |-> FALSE, free |-> 0,
               positions |-> EmptyMap,
               before |-> Ledger(balance, positions),
               after |-> Ledger(balance, positions)]
    /\ reader = [th \in Readers |-> NoRead]
    /\ position_order = <<>>

\* create_order from its first line to "Store order" and _filled_orders: the
\* checks, the pricing and the order record; amt is the amount after the
\* lot-size validation.  will_fill is True, so the order is closed
StartOrder(pair, ordertype, side, rate, req, instrument_type, amt) ==
    /\ fill.pc = "idle"
    /\ instrument_type \in InstrumentTypes
    /\ IF requires_lot_size(instrument_type) /\ amt = 0
       THEN /\ res' = MkRes("create_order", "InvalidOrder", pair, 0, 0, req)
            /\ UNCHANGED <<broker_vars, fill>>
       ELSE \E sp \in _simulate_price(pair) :
            LET current_price   == sp.price
                execution_price == ExecutionPrice(ordertype, side, rate, current_price)
                order_value     == execution_price * amt
                commission      == _calculate_commission(order_value)
                total_cost      == order_value + commission
                order_id        == Len(orders) + 1
                order == [id        |-> order_id,
                          status    |-> "closed",
                          symbol    |-> pair,
                          type      |-> ordertype,
                          side      |-> side,
                          price     |-> execution_price,
                          average   |-> execution_price,
                          amount    |-> amt,
                          filled    |-> amt,
                          remaining |-> 0,
                          cost      |-> order_value,
                          fee       |-> commission]
            IN
            /\ ExactOrder(ordertype, side, rate, current_price, amt)
            /\ price_cache' = sp.cache
            /\ IF InsufficientFunds(side, total_cost, balance.free)
               THEN /\ res' = MkRes("create_order", "InsufficientFunds", pair, 0,
                                    current_price, req)
                    /\ UNCHANGED <<config, positions_restored, markets, balance, orders, open_orders,
                                   filled_orders, positions, trade_history, csv_data,
                                   use_csv_data, fill>>
               ELSE /\ orders' = Append(orders, order)
                    /\ filled_orders' = filled_orders \cup {order_id}
                    /\ fill' =
                         [pc |-> "balance", pair |-> pair, side |-> side,
                          amount |-> amt, order_value |-> order_value,
                          commission |-> commission, total_cost |-> total_cost,
                          order_id |-> order_id, price |-> execution_price,
                          current_price |-> current_price, req |-> req,
                          before |-> Ledger(balance, positions),
                          after |->
                            IF side = "buy"
                            THEN Ledger(BuyFillBalance(balance, total_cost),
                                        BuyFillPositions(positions, pair, amt,
                                                         order_value))
                            ELSE Ledger(SellFillBalance(balance, order_value,
                                                        commission),
                                        SellFillPositions(positions, pair, amt)),
                          restored |-> FALSE]
                    /\ UNCHANGED <<config, positions_restored, markets, balance, open_orders, positions,
                                   trade_history, csv_data, use_csv_data, res>>
    /\ UNCHANGED <<seen, reader, position_order>>

\* create_order(pair, ordertype, side, amount, rate) begins in the first thread
BeginCreateOrder(pair, ordertype, side, amount, rate) ==
    /\ Len(orders) < MaxOrders
    /\ StartOrder(pair, ordertype, side, rate,
                  [ordertype |-> ordertype, side |-> side, amount |-> amount, rate |-> rate],
                  PairInstrumentType[pair], NormalizedAmount(pair, amount))

\* create_order, "Update balance": _balance['INR']['free'] is debited or credited
FillBalance ==
    /\ fill.pc = "balance"
    /\ balance' = IF fill.side = "buy"
                  THEN BuyFillBalance(balance, fill.total_cost)
                  ELSE SellFillBalance(balance, fill.order_value, fill.commission)
    /\ fill' = [fill EXCEPT !.pc = IF fill.side = "buy" THEN "position" ELSE "amount"]
    /\ UNCHANGED position_order
    /\ UNCHANGED <<config, positions_restored, markets, orders, open_orders, filled_orders, positions,
                   trade_history, price_cache, csv_data, use_csv_data, res, seen, reader>>

\* create_order, buy: "if pair not in self._positions" an empty position is made
FillPosition ==
    /\ fill.pc = "position"
    /\ positions' = IF fill.pair \in DOMAIN positions
                    THEN positions
                    ELSE Put(positions, fill.pair, [amount |-> 0, cost |-> 0])
    /\ position_order' = IF fill.pair \in DOMAIN positions
                         THEN position_order
                         ELSE Append(position_order, fill.pair)
    /\ fill' = [fill EXCEPT !.pc = "amount"]
    /\ UNCHANGED <<config, positions_restored, markets, balance, orders, open_orders, filled_orders,
                   trade_history, price_cache, csv_data, use_csv_data, res, seen, reader>>

\* create_order: the position's amount is raised (buy) or, if there is a
\* position, lowered (sell)
FillAmount ==
    /\ fill.pc = "amount"
    /\ positions' = IF fill.side = "buy"
                    THEN [positions EXCEPT ![fill.pair].amount = @ + fill.amount]
                    ELSE SellFillPositions(positions, fill.pair, fill.amount)
    /\ fill' = [fill EXCEPT !.pc = IF fill.side = "buy" THEN "cost" ELSE "log"]
    /\ UNCHANGED position_order
    /\ UNCHANGED <<config, positions_restored, markets, balance, orders, open_orders, filled_orders,
                   trade_history, price_cache, csv_data, use_csv_data, res, seen, reader>>

\* create_order, buy: the position's cost is raised
FillCost ==
    /\ fill.pc = "cost"
    /\ positions' = [positions EXCEPT ![fill.pair].cost = @ + fill.order_value]
    /\ fill' = [fill EXCEPT !.pc = "log"]
    /\ UNCHANGED position_order
    /\ UNCHANGED <<config, positions_restored, markets, balance, orders, open_orders, filled_orders,
                   trade_history, price_cache, csv_data, use_csv_data, res, seen, reader>>

\* create_order, "Log trade" and return
FillLog ==
    /\ fill.pc = "log"
    /\ trade_history' = Append(trade_history,
           [order_id |-> fill.order_id, pair |-> fill.pair, side |-> fill.side,
            amount |-> fill.amount, price |-> fill.price,
            commission |-> fill.commission])
    /\ res' = MkRes("create_order", "ok", fill.pair, fill.order_id,
                    fill.current_price, fill.req)
    /\ fill' = NoFill(Ledger(balance, positions))
    /\ UNCHANGED position_order
    /\ UNCHANGED <<config, positions_restored, markets, balance, orders, open_orders, filled_orders,
                   positions, price_cache, csv_data, use_csv_data, seen, reader>>

\* fetch_balance() begins in a reading thread, "if not self._positions_restored":
\* the flag is tested; while it is not set the call goes on to
\* _restore_positions_from_db
BeginFetchBalance(th) ==
    /\ reader[th].pc = "idle"
    /\ reader' = [reader EXCEPT ![th] =
                    [NoRead EXCEPT !.pc = IF positions_restored THEN "free" ELSE "query"]]
    /\ UNCHANGED <<broker_vars, res, fill, seen, position_order>>

\* _restore_positions_from_db, "open_trades = Trade.get_open_trades()": the trade
\* database answers; without open trades the restore is over, else the loop
\* over the trades begins
get_open_trades(th, open_trades) ==
    /\ reader[th].pc = "query"
    /\ reader' = [reader EXCEPT ![th] =
                    [@ EXCEPT !.pc = IF open_trades = <<>> THEN "flag" ELSE "insert",
                              !.open_trades = open_trades,
                              !.at = 1]]
    /\ UNCHANGED <<broker_vars, res, fill, seen, position_order>>

\* the callers after a statement of the restore has made the ledgers bal and
\* pos and left its own call as frame: a fill under way and the calls that have
\* read the balance are marked when the ledgers have changed
AfterRestore(th, bal, pos, frame) ==
    LET changed == Ledger(bal, pos) # Ledger(balance, positions) IN
    /\ fill' = IF ~changed THEN fill
               ELSE IF fill.pc = "idle" THEN NoFill(Ledger(bal, pos))
               ELSE [fill EXCEPT !.restored = TRUE]
    /\ reader' = [r \in Readers |->
                    IF r = th THEN frame
                    ELSE IF changed /\ reader[r].pc \in {"iter", "loop"}
                    THEN [reader[r] EXCEPT !.restored = TRUE]
                    ELSE reader[r]]

\* the open trade the loop of _restore_positions_from_db is at
TradeAt(th) == reader[th].open_trades[reader[th].at]

\* _restore_positions_from_db, "if pair not in self._positions": an empty
\* position is made
RestoreInsert(th) ==
    /\ reader[th].pc = "insert"
    /\ LET pair == TradeAt(th).pair
           pos  == IF pair \in DOMAIN positions THEN positions
                   ELSE Put(positions, pair, [amount |-> 0, cost |-> 0])
       IN  /\ positions' = pos
           /\ position_order' = IF pair \in DOMAIN positions THEN position_order
                                ELSE Append(position_order, pair)
           /\ AfterRestore(th, balance, pos, [reader[th] EXCEPT !.pc = "amount"])
    /\ UNCHANGED <<config, positions_restored, markets, balance, orders, open_orders,
                   filled_orders, trade_history, price_cache, csv_data, use_csv_data,
                   res, seen>>

\* _restore_positions_from_db, "self._positions[pair]['amount'] += amount"
RestoreAmount(th) ==
    /\ reader[th].pc = "amount"
    /\ LET pos == [positions EXCEPT ![TradeAt(th).pair].amount = @ + TradeAt(th).amount]
       IN  /\ positions' = pos
           /\ AfterRestore(th, balance, pos, [reader[th] EXCEPT !.pc = "cost"])
    /\ UNCHANGED <<config, positions_restored, markets, balance, orders, open_orders,
                   filled_orders, trade_history, price_cache, csv_data, use_csv_data,
                   res, seen, position_order>>

\* _restore_positions_from_db, "self._positions[pair]['cost'] += ...", its left
\* side: the cost the position has now is read; trade.open_rate is evaluated
\* after that, and other threads may run while it is
RestoreCostLoad(th) ==
    /\ reader[th].pc = "cost"
    /\ reader' = [reader EXCEPT ![th] =
                    [@ EXCEPT !.pc = "cost_store",
                              !.old_cost = positions[TradeAt(th).pair].cost]]
    /\ UNCHANGED <<broker_vars, res, fill, seen, position_order>>

\* _restore_positions_from_db, "self._positions[pair]['cost'] += ...", the
\* store: the cost read before, raised by open_rate * amount, is written over
\* what the position has by now; then the loop goes on to the next open trade,
\* or it is over
RestoreCost(th) ==
    /\ reader[th].pc = "cost_store"
    /\ LET pos == [positions EXCEPT ![TradeAt(th).pair].cost =
                       reader[th].old_cost + TradeAt(th).open_rate * TradeAt(th).amount]
       IN  /\ positions' = pos
           /\ AfterRestore(th, balance, pos,
                  [reader[th] EXCEPT
                     !.at = @ + 1,
                     !.old_cost = 0,
                     !.pc = IF reader[th].at < Len(reader[th].open_trades)
                            THEN "insert" ELSE "sum"])
    /\ UNCHANGED <<config, positions_restored, markets, balance, orders, open_orders,
                   filled_orders, trade_history, price_cache, csv_data, use_csv_data,
                   res, seen, position_order>>

\* _restore_positions_from_db, "total_used = sum(pos['cost'] for pos in
\* self._positions.values())": the iterator over _positions is made; it
\* remembers how many keys the dict has
RestoreSum(th) ==
    /\ reader[th].pc = "sum"
    /\ reader' = [reader EXCEPT ![th] =
                    [@ EXCEPT !.pc = "sum_next", !.used = Len(position_order),
                              !.at = 1, !.total_used = 0]]
    /\ UNCHANGED <<broker_vars, res, fill, seen, position_order>>

\* _restore_positions_from_db, one step of the generator in sum(): the iterator
\* raises RuntimeError when the dict has changed size since it was made, which
\* "except Exception" swallows, so that used and free are left as they are;
\* else the cost of the next position is added as it is now, or the sum is
\* complete and "if total_used > 0" is decided
RestoreSumNext(th) ==
    /\ reader[th].pc = "sum_next"
    /\ reader' = [reader EXCEPT ![th] =
                    IF Len(position_order) # reader[th].used
                    THEN [@ EXCEPT !.pc = "flag", !.used = 0, !.at = 0,
                                   !.total_used = 0]
                    ELSE IF reader[th].at > reader[th].used
                    THEN [@ EXCEPT !.pc = IF reader[th].total_used > 0
                                          THEN "set_used" ELSE "flag",
                                   !.used = 0, !.at = 0]
                    ELSE [@ EXCEPT !.at = @ + 1,
                                   !.total_used =
                                       @ + positions[position_order[reader[th].at]].cost]]
    /\ UNCHANGED <<broker_vars, res, fill, seen, position_order>>

\* _restore_positions_from_db, "self._balance['INR']['used'] = total_used"
RestoreUsed(th) ==
    /\ reader[th].pc = "set_used"
    /\ balance' = [balance EXCEPT !.used = reader[th].total_used]
    /\ reader' = [reader EXCEPT ![th].pc = "set_free"]
    /\ UNCHANGED <<config, positions_restored, markets, orders, open_orders,
                   filled_orders, positions, trade_history, price_cache, csv_data,
                   use_csv_data, res, fill, seen, position_order>>

\* _restore_positions_from_db, "self._balance['INR']['free'] = max(0, ...)"
RestoreFree(th) ==
    /\ reader[th].pc = "set_free"
    /\ LET bal == [balance EXCEPT
                     !.free = Max2(0, config.initial_balance - reader[th].total_used)]
       IN  /\ balance' = bal
           /\ AfterRestore(th, bal, positions, [reader[th] EXCEPT !.pc = "flag"])
    /\ UNCHANGED <<config, positions_restored, markets, orders, open_orders,
                   filled_orders, positions, trade_history, price_cache, csv_data,
                   use_csv_data, res, seen, position_order>>

\* fetch_balance, "self._positions_restored = True"
SetRestored(th) ==
    /\ reader[th].pc = "flag"
    /\ positions_restored' = TRUE
    /\ reader' = [reader EXCEPT ![th].pc = "free"]
    /\ UNCHANGED <<config, markets, balance, orders, open_orders, filled_orders,
                   positions, trade_history, price_cache, csv_data, use_csv_data,
                   res, fill, seen, position_order>>

\* fetch_balance, the balance dict: _balance['INR']['free'] is read
ReadFree(th) ==
    /\ reader[th].pc = "free"
    /\ reader' = [reader EXCEPT ![th] = [@ EXCEPT !.pc = "iter", !.free = balance.free]]
    /\ UNCHANGED <<broker_vars, res, fill, seen, position_order>>

\* fetch_balance, "for pair, position in self._positions.items()": the iterator
\* is made; it remembers how many keys the dict has
StartLoop(th) ==
    /\ reader[th].pc = "iter"
    /\ reader' = [reader EXCEPT ![th] =
                    [@ EXCEPT !.pc = "loop", !.used = Len(position_order), !.at = 1]]
    /\ UNCHANGED <<broker_vars, res, fill, seen, position_order>>

\* fetch_balance, one step of the loop over _positions: the iterator raises
\* RuntimeError when the dict has changed size since it was made; else the next
\* position is read as it is now, or the loop is over and the balance returned
LoopNext(th) ==
    /\ reader[th].pc = "loop"
    /\ IF Len(position_order) # reader[th].used
       THEN /\ seen' = [op |-> "fetch_balance", outcome |-> "RuntimeError",
                        restored |-> fill.restored \/ reader[th].restored,
                        free |-> reader[th].free, positions |-> reader[th].held,
                        before |-> fill.before, after |-> fill.after]
            /\ reader' = [reader EXCEPT ![th] = NoRead]
       ELSE IF reader[th].at > reader[th].used
       THEN /\ seen' = [op |-> "fetch_balance", outcome |-> "ok",
                        restored |-> fill.restored \/ reader[th].restored,
                        free |-> reader[th].free, positions |-> reader[th].held,
                        before |-> fill.before, after |-> fill.after]
            /\ reader' = [reader EXCEPT ![th] = NoRead]
       ELSE /\ reader' = [reader EXCEPT ![th] =
                            [@ EXCEPT
                               !.at = @ + 1,
                               !.held = Put(@, position_order[reader[th].at],
                                            positions[position_order[reader[th].at]])]]
            /\ UNCHANGED seen
    /\ UNCHANGED <<broker_vars, res, fill, position_order>>

\* get_positions() in a reading thread
ReadPositions ==
    /\ seen' = [op |-> "get_positions", outcome |-> "ok",
                restored |-> fill.restored, free |-> 0,
                positions |-> positions,
                before |-> fill.before, after |-> fill.after]
    /\ UNCHANGED <<broker_vars, res, fill, reader, position_order>>

(***************************************************************************)
(* Exchange factory                                                        *)
(***************************************************************************)
\* str.lower(), character by character
LowerChar(c) ==
    IF IsUpperLetter(c)
    THEN LowerLetters[CHOOSE i \in 1..Len(UpperLetters) : UpperLetters[i] = c]
    ELSE c

Lower(s) == [i \in 1..Len(s) |-> LowerChar(s[i])]

\* How many register_custom_exchange calls are made after the start-up ones
MaxRegistrations == 2

\* Venue names, as sequences of characters
VenueNames ==
    { <<"O","P","E","N","A","L","G","O">>,
      <<"O","p","e","n","A","l","g","o">>,
      <<"P","a","p","e","r","B","r","o","k","e","r">>,
      <<"b","i","n","a","n","c","e">>,
      <<"B","i","n","a","n","c","e">>,
      <<"e","x","c","h","a","n","g","e","s">>,
      <<"n","o","s","u","c","h">>,
      <<>> }

\* The names given to register_custom_exchange after start-up
RegisteredNames ==
    { <<"O","p","e","n","A","l","g","o">>,
      <<"B","i","n","a","n","c","e">>,
      <<"b","i","n","a","n","c","e">> }

\* The adapter classes of the code base
AdapterClasses == {"Openalgo", "Paperbroker", "Smartapi", "Zerodha", "ExampleExchange"}

\* ccxt.exchanges: the exchanges of the generic library (two of them)
ccxt_exchanges == { <<"b","i","n","a","n","c","e">>, <<"k","r","a","k","e","n">> }

\* The attributes of the ccxt module: its exchange classes, and what else the
\* module holds, such as the list ccxt.exchanges itself
ccxt_attributes == ccxt_exchanges \cup { <<"e","x","c","h","a","n","g","e","s">> }

VARIABLES
    CUSTOM_EXCHANGES,    \* the registry: a dict, kept as its items in insertion order
    registrations,       \* every register_custom_exchange call so far, in order
    fres                 \* the last call of the factory and its outcome

factory_vars == <<CUSTOM_EXCHANGES, registrations, fres>>

\* dict operations on a sequence of [key, value] items
DictKeys(d) == [i \in 1..Len(d) |-> d[i].key]

DictHas(d, k) == \E i \in 1..Len(d) : d[i].key = k

DictGet(d, k) == d[CHOOSE i \in 1..Len(d) : d[i].key = k].value

DictSet(d, k, v) ==
    IF DictHas(d, k)
    THEN [i \in 1..Len(d) |-> IF d[i].key = k THEN [key |-> k, value |-> v] ELSE d[i]]
    ELSE Append(d, [key |-> k, value |-> v])

FactoryResult(op, name) ==
    [op |-> op, name |-> name, outcome |-> "returned", error |-> "", message |-> "",
     class |-> "", raised_in |-> "", listed |-> <<>>, custom |-> {}, value |-> FALSE]

\* freqtrade/exchange/__init__.py: the four registrations made on import
StartupRegistrations ==
    << [name |-> <<"o","p","e","n","a","l","g","o">>, class |-> "Openalgo"],
       [name |-> <<"p","a","p","e","r","b","r","o","k","e","r">>, class |-> "Paperbroker"],
       [name |-> <<"s","m","a","r","t","a","p","i">>, class |-> "Smartapi"],
       [name |-> <<"z","e","r","o","d","h","a">>, class |-> "Zerodha"] >>

\* Fault variant of RegistryKey: the name is stored as given
RegistryKey_verbatim(name) == name

\* register_custom_exchange: the key a class is stored under
RegistryKey(name) == Lower(name)

RECURSIVE RegisterAll(_, _)
RegisterAll(d, regs) ==
    IF regs = <<>> THEN d
    ELSE RegisterAll(DictSet(d, RegistryKey(Head(regs).name), Head(regs).class),
                     Tail(regs))

FactoryInit ==
    /\ CUSTOM_EXCHANGES = RegisterAll(<<>>, StartupRegistrations)
    /\ registrations = StartupRegistrations
    /\ fres = FactoryResult("import", <<>>)

\* register_custom_exchange(name, exchange_class)
register_custom_exchange(name, exchange_class) ==
    /\ Len(registrations) < Len(StartupRegistrations) + MaxRegistrations
    /\ CUSTOM_EXCHANGES' = DictSet(CUSTOM_EXCHANGES, RegistryKey(name), exchange_class)
    /\ registrations' = Append(registrations, [name |-> name, class |-> exchange_class])
    /\ fres' = FactoryResult("register_custom_exchange", name)

\* is_ccxt_exchange(exchange_name): hasattr(ccxt, exchange_name.lower())
is_ccxt_exchange(exchange_name) == Lower(exchange_name) \in ccxt_attributes

\* is_custom_exchange(exchange_name)
is_custom_exchange(exchange_name) == DictHas(CUSTOM_EXCHANGES, Lower(exchange_name))

\* CCXTAdapter(config): getattr(ccxt, config['exchange']['name']) is looked up
\* under the name as configured and called
CCXTAdapterInit(name) ==
    IF name \notin ccxt_attributes
    THEN [FactoryResult("create_exchange", name) EXCEPT
            !.outcome = "raised", !.error = "OperationalException",
            !.message = "is not supported by CCXT", !.raised_in = "constructor"]
    ELSE IF name \notin ccxt_exchanges
    THEN [FactoryResult("create_exchange", name) EXCEPT
            !.outcome = "raised", !.error = "OperationalException",
            !.message = "Failed to initialize CCXT exchange",
            !.raised_in = "constructor"]
    ELSE [FactoryResult("create_exchange", name) EXCEPT
            !.outcome = "adapter", !.class = "CCXTAdapter"]

\* is_custom_exchange(exchange_name), called from outside
IsCustomExchange(name) ==
    /\ fres' = [FactoryResult("is_custom_exchange", name) EXCEPT
                  !.value = is_custom_exchange(name)]
    /\ UNCHANGED <<CUSTOM_EXCHANGES, registrations>>

\* list_available_exchanges()['custom']: the keys of the registry (the list is
\* sorted in the code; it is kept as a set here)
list_available_exchanges ==
    /\ fres' = [FactoryResult("list_available_exchanges", <<>>) EXCEPT
                  !.custom = {CUSTOM_EXCHANGES[i].key : i \in 1..Len(CUSTOM_EXCHANGES)}]
    /\ UNCHANGED <<CUSTOM_EXCHANGES, registrations>>

(***************************************************************************)
(* Broker adapters: construction, and the operations of OpenAlgo           *)
(***************************************************************************)
\* Which credentials the exchange configuration holds
Credentials ==
    [key : BOOLEAN, username : BOOLEAN, password : BOOLEAN, totp_token : BOOLEAN]

\* Where create_exchange is called: the SmartApi and pyotp packages are not
\* installed; or they are, the configuration holds all credentials, and the
\* backend accepts or rejects the login
FactoryEnvironments ==
    [cfg : {[key |-> TRUE, username |-> TRUE, password |-> TRUE, totp_token |-> TRUE]},
     installed : {FALSE}, totp_returns : {TRUE}, login : {"unreachable"}]
    \cup
    [cfg : {[key |-> TRUE, username |-> TRUE, password |-> TRUE, totp_token |-> TRUE]},
     installed : {TRUE}, totp_returns : {TRUE}, login : {"ok", "rejected"}]

\* What the backend answers to a login
LoginReplies == {"ok", "rejected", "unreachable"}

\* Where the connection object that a refused connection names in its error
\* lies in memory: the hexadecimal digits of id(), which differ from run to run
Addresses ==
    { <<"7","f","3","a","9","c","1","d","2","b","5","0">>,
      <<"7","f","4","0","4","c","1","d","2","b","5","0">> }

\* What the backend answers to a request of an operation: a result, a result
\* with status 'error', an HTTP error status, or no connection; text is what
\* its message mentions; data is the 'data' of a result, in the shape of the
\* endpoint: filled, empty, left out, or filled with a last candle of close 0;
\* library is the urllib3 that requests works with, which words the error of a
\* refused connection (the repository pins neither library): urllib3 1 names
\* the connection object by its address, urllib3 2 by its host and port
BackendReplies ==
    [kind : {"ok"}, status : {200}, text : {""},
     data : {"full", "empty", "missing", "zero"}, library : {""}, address : {<<>>}]
    \cup [kind : {"api_error"}, status : {200},
          text : {"", "insufficient", "not found"}, data : {""}, library : {""},
          address : {<<>>}]
    \cup {r \in [kind : {"connection"}, status : {200}, text : {""}, data : {""},
                  library : {"urllib3 1", "urllib3 2"}, address : Addresses \cup {<<>>}] :
             (r.library = "urllib3 1") = (r.address # <<>>)}
    \cup [kind : {"http"}, status : {400, 404, 429, 500, 501, 503},
          text : {"", "insufficient", "not found"}, data : {""}, library : {""},
          address : {<<>>}]

\* exchange.urls.api of the configuration: the default of Openalgo.__init__, and
\* a backend that listens on port 4040
DefaultHost ==
    <<"h","t","t","p",":","/","/","1","2","7",".","0",".","0",".","1",":","5","0","0","0">>

Hosts ==
    { DefaultHost,
      <<"h","t","t","p",":","/","/","1","2","7",".","0",".","0",".","1",":","4","0","4","0">> }

OpenalgoOperations ==
    {"fetch_ticker", "fetch_order_book", "fetch_ohlcv", "create_order", "fetch_order",
     "cancel_order", "fetch_balance"}

VARIABLES
    adapter,             \* the class of the adapter constructed last, "" if none
    ares,                \* the last adapter call: its inputs, its outcome and the
                         \* network calls it made
    _host,               \* Openalgo._host: the url the adapter sends its requests to
    calling              \* the Openalgo operation under way: pc names the stage of
                         \* _make_request it is at ("idle": no call under way)

adapter_vars == <<adapter, ares, _host, calling>>

NoCredentials ==
    [key |-> FALSE, username |-> FALSE, password |-> FALSE, totp_token |-> FALSE]

NoReply ==
    [kind |-> "ok", status |-> 200, text |-> "", data |-> "full", library |-> "",
     address |-> <<>>]

NoCall == [pc |-> "idle", operation |-> ""]

AdapterResult(op, class, cfg, reply) ==
    [op |-> op, class |-> class, cfg |-> cfg, reply |-> reply, outcome |-> "returned",
     error |-> "", value |-> "", calls |-> <<>>]

AdapterInit ==
    /\ adapter = ""
    /\ ares = AdapterResult("none", "", NoCredentials, NoReply)
    /\ _host = DefaultHost
    /\ calling = NoCall

\* The abstract methods of ExchangeAdapter that a class leaves undefined
AbstractMethodsLeft(class) ==
    IF class = "Zerodha" THEN {"fetch_open_orders", "fetch_orders"} ELSE {}

\* Smartapi(config): the packages are imported, the client is made and _login
\* runs: the TOTP is computed, then generateSession goes to the backend
SmartapiInit(cfg, installed, totp_returns, login) ==
    LET r == AdapterResult("construct", "Smartapi", cfg, NoReply) IN
    IF ~installed
    THEN [r EXCEPT !.outcome = "raised", !.error = "OperationalException"]
    ELSE IF ~totp_returns
    THEN [r EXCEPT !.outcome = "raised", !.error = "OperationalException"]
    ELSE IF login = "ok"
    THEN [r EXCEPT !.outcome = "constructed", !.calls = <<"generateSession">>]
    ELSE [r EXCEPT !.outcome = "raised", !.error = "OperationalException",
                   !.calls = <<"generateSession">>]

\* Openalgo(config): the key is read, a session object, the rate limiter and the
\* markets are set up; validate_config is not called
OpenalgoInit(cfg) ==
    [AdapterResult("construct", "Openalgo", cfg, NoReply) EXCEPT
        !.outcome = "constructed"]

\* Zerodha(config): the class leaves abstract methods undefined, so Python
\* refuses to make an object and __init__ does not run
ZerodhaInit(cfg) ==
    IF AbstractMethodsLeft("Zerodha") # {}
    THEN [AdapterResult("construct", "Zerodha", cfg, NoReply) EXCEPT
            !.outcome = "raised", !.error = "TypeError"]
    ELSE [AdapterResult("construct", "Zerodha", cfg, NoReply) EXCEPT
            !.outcome = "constructed"]

Constructed(result) ==
    /\ calling.pc = "idle"
    /\ ares' = result
    /\ adapter' = IF result.outcome = "constructed" THEN result.class ELSE adapter
    /\ UNCHANGED calling

\* Smartapi(config) with the credentials cfg.  The backend accepts a login only
\* with all credentials; pyotp computes a TOTP from a token that is there
NewSmartapi(cfg, installed, totp_returns, login) ==
    /\ login = "ok" => (cfg.key /\ cfg.username /\ cfg.password /\ cfg.totp_token)
    /\ cfg.totp_token => totp_returns
    /\ Constructed(SmartapiInit(cfg, installed, totp_returns, login))
    /\ UNCHANGED _host

\* Openalgo(config) with the credentials cfg and exchange.urls.api = host
NewOpenalgo(cfg, host) ==
    /\ Constructed(OpenalgoInit(cfg))
    /\ _host' = host

NewZerodha(cfg) ==
    /\ Constructed(ZerodhaInit(cfg))
    /\ UNCHANGED _host

\* exchange_class(config): what calling a registered adapter class gives.
\* Paperbroker and ExampleExchange define every abstract method and their
\* constructors ask nothing of the backend
Instantiate(class, cfg, installed, totp_returns, login) ==
    CASE class = "Smartapi" -> SmartapiInit(cfg, installed, totp_returns, login)
      [] class = "Openalgo" -> OpenalgoInit(cfg)
      [] class = "Zerodha"  -> ZerodhaInit(cfg)
      [] OTHER -> [AdapterResult("construct", class, cfg, NoReply) EXCEPT
                      !.outcome = "constructed"]

\* create_exchange(config), name being config['exchange']['name'] and cfg the
\* credentials of the configuration.  A custom adapter is made by calling the
\* class found in the registry: the adapter is returned, or the call raises
create_exchange(name, cfg, installed, totp_returns, login) ==
    /\ login = "ok" => (cfg.key /\ cfg.username /\ cfg.password /\ cfg.totp_token)
    /\ cfg.totp_token => totp_returns
    /\ LET exchange_name == Lower(name) IN
       fres' =
         IF exchange_name = <<>>
         THEN [FactoryResult("create_exchange", name) EXCEPT
                 !.outcome = "raised", !.error = "OperationalException",
                 !.message = "No exchange specified in configuration",
                 !.raised_in = "create_exchange"]
         ELSE IF is_custom_exchange(exchange_name)
         THEN LET exchange_class == DictGet(CUSTOM_EXCHANGES, exchange_name)
                  made == Instantiate(exchange_class, cfg, installed, totp_returns,
                                      login)
              IN  IF made.outcome = "constructed"
                  THEN [FactoryResult("create_exchange", name) EXCEPT
                          !.outcome = "adapter", !.class = exchange_class]
                  ELSE [FactoryResult("create_exchange", name) EXCEPT
                          !.outcome = "raised", !.error = made.error,
                          !.class = exchange_class, !.raised_in = "constructor"]
         ELSE IF is_ccxt_exchange(exchange_name)
         THEN CCXTAdapterInit(name)
         ELSE [FactoryResult("create_exchange", name) EXCEPT
                 !.outcome = "raised", !.error = "OperationalException",
                 !.message = "is not supported",
                 !.raised_in = "create_exchange",
                 !.listed = DictKeys(CUSTOM_EXCHANGES)]
    /\ UNCHANGED <<CUSTOM_EXCHANGES, registrations>>

\* _make_request, except requests.exceptions.HTTPError
HttpErrorKind(status) ==
    IF status = 429 THEN "DDosProtection"
    ELSE IF status \in {500, 502, 503, 504} THEN "TemporaryError"
    ELSE "ExchangeError"

\* _make_request(endpoint, ...): the exception it raises, "" if it returns
_make_request(reply) ==
    CASE reply.kind = "ok"         -> ""
      [] reply.kind = "api_error"  -> "ExchangeError"
      [] reply.kind = "http"       -> HttpErrorKind(reply.status)
      [] reply.kind = "connection" -> "TemporaryError"

DigitChars == <<"0","1","2","3","4","5","6","7","8","9">>

\* str(status_code)
StatusChars(status) ==
    <<DigitChars[(status \div 100) + 1], DigitChars[((status \div 10) % 10) + 1],
      DigitChars[(status % 10) + 1]>>

\* The endpoints of the operations
EndpointChars(endpoint) ==
    CASE endpoint = "/api/v1/placeorder" ->
            <<"/","a","p","i","/","v","1","/","p","l","a","c","e","o","r","d","e","r">>
      [] endpoint = "/api/v1/orderstatus" ->
            <<"/","a","p","i","/","v","1","/","o","r","d","e","r","s","t","a","t","u","s">>

\* What the backend wrote into its answer
TextChars(text) ==
    CASE text = ""             -> <<>>
      [] text = "insufficient" ->
            <<"I","n","s","u","f","f","i","c","i","e","n","t"," ","f","u","n","d","s">>
      [] text = "not found"    ->
            <<"O","r","d","e","r"," ","n","o","t"," ","f","o","u","n","d">>

\* The reason phrase of a status, as the status line of the answer gives it
ReasonChars(status) ==
    CASE status = 400 ->
            <<"B","a","d"," ","R","e","q","u","e","s","t">>
      [] status = 404 ->
            <<"N","o","t"," ","F","o","u","n","d">>
      [] status = 429 ->
            <<"T","o","o"," ","M","a","n","y"," ","R","e","q","u","e","s","t","s">>
      [] status = 500 ->
            <<"I","n","t","e","r","n","a","l"," ","S","e","r","v","e","r"," ","E","r",
              "r","o","r">>
      [] status = 501 ->
            <<"N","o","t"," ","I","m","p","l","e","m","e","n","t","e","d">>
      [] status = 503 ->
            <<"S","e","r","v","i","c","e"," ","U","n","a","v","a","i","l","a","b","l",
              "e">>

\* str(e) of the HTTPError that response.raise_for_status() raises
HTTPErrorChars(status, url) ==
    StatusChars(status)
       \o (IF status < 500
           THEN
                <<" ","C","l","i","e","n","t"," ","E","r","r","o","r",":"," ">>
           ELSE
                <<" ","S","e","r","v","e","r"," ","E","r","r","o","r",":"," ">>)
       \o ReasonChars(status)
       \o
            <<" ","f","o","r"," ","u","r","l",":"," ">>
       \o url

\* What _make_request puts before the error it reports
PrefixChars(reply) ==
    CASE reply.kind = "api_error" ->
            <<"O","p","e","n","A","l","g","o"," ","A","P","I"," ","e","r","r","o","r",
              ":"," ">>
      [] reply.kind = "connection" ->
            <<"O","p","e","n","A","l","g","o"," ","c","o","n","n","e","c","t","i","o",
              "n"," ","e","r","r","o","r",":"," ">>
      [] reply.kind = "http" /\ reply.status = 429 ->
            <<"O","p","e","n","A","l","g","o"," ","r","a","t","e"," ","l","i","m","i",
              "t"," ","e","x","c","e","e","d","e","d",":"," ">>
      [] reply.kind = "http" /\ reply.status \in {500, 502, 503, 504} ->
            <<"O","p","e","n","A","l","g","o"," ","s","e","r","v","e","r"," ","e","r",
              "r","o","r",":"," ">>
      [] reply.kind = "http" ->
            <<"O","p","e","n","A","l","g","o"," ","H","T","T","P"," ","e","r","r","o",
              "r",":"," ">>
      [] OTHER -> <<>>

\* the place of the first character c in s, 0 if there is none
IndexOf(s, c) ==
    IF \E i \in 1..Len(s) : s[i] = c
    THEN CHOOSE i \in 1..Len(s) : s[i] = c /\ \A j \in 1..(i - 1) : s[j] # c
    ELSE 0

\* the url of the backend after "http://": host and port, as the library
\* parses them
HostAndPort(url) == SubSeq(url, IndexOf(url, "/") + 2, Len(url))

HostName(url) ==
    SubSeq(HostAndPort(url), 1, IndexOf(HostAndPort(url), ":") - 1)

HostPort(url) ==
    SubSeq(HostAndPort(url), IndexOf(HostAndPort(url), ":") + 1, Len(HostAndPort(url)))

\* str(e) of the ConnectionError that the session raises when the backend
\* refuses the connection: the connection pool, the path of the request and the
\* cause.  urllib3 1 puts the cause in single quotes and names the connection
\* object by its address; urllib3 2 puts it in double quotes and names the
\* connection by its host and port
ConnectionErrorChars(url, endpoint, library, address) ==
    <<"H","T","T","P","C","o","n","n","e","c","t","i","o","n","P","o","o","l","(","h",
      "o","s","t","=","'">>
       \o HostName(url) \o
    <<"'",","," ","p","o","r","t","=">>
       \o HostPort(url) \o
    <<")",":"," ","M","a","x"," ","r","e","t","r","i","e","s"," ","e","x","c","e","e",
      "d","e","d"," ","w","i","t","h"," ","u","r","l",":"," ">>
       \o EndpointChars(endpoint) \o
    <<" ","(","C","a","u","s","e","d"," ","b","y"," ","N","e","w","C","o","n","n","e",
      "c","t","i","o","n","E","r","r","o","r","(">>
       \o
    (IF library = "urllib3 1"
     THEN
         <<"'","<","u","r","l","l","i","b","3",".","c","o","n","n","e","c","t","i","o",
           "n",".","H","T","T","P","C","o","n","n","e","c","t","i","o","n"," ","o","b",
           "j","e","c","t"," ","a","t"," ","0","x">>
            \o address \o
         <<">",":"," ","F","a","i","l","e","d"," ","t","o"," ","e","s","t","a","b","l",
           "i","s","h"," ","a"," ","n","e","w"," ","c","o","n","n","e","c","t","i","o",
           "n",":"," ","[","E","r","r","n","o"," ","1","1","1","]"," ","C","o","n","n",
           "e","c","t","i","o","n"," ","r","e","f","u","s","e","d","'",")",")">>
     ELSE
         <<"\"","H","T","T","P","C","o","n","n","e","c","t","i","o","n","(","h","o","s",
           "t","=","'">>
            \o HostName(url) \o
         <<"'",","," ","p","o","r","t","=">>
            \o HostPort(url) \o
         <<")",":"," ","F","a","i","l","e","d"," ","t","o"," ","e","s","t","a","b","l",
           "i","s","h"," ","a"," ","n","e","w"," ","c","o","n","n","e","c","t","i","o",
           "n",":"," ","[","E","r","r","n","o"," ","1","1","1","]"," ","C","o","n","n",
           "e","c","t","i","o","n"," ","r","e","f","u","s","e","d","\"",")",")">>)

\* str(e) of what _make_request raises: an error status of the backend gives the
\* backend's message; an HTTP error gives the status with its reason phrase, the
\* url of the request and the body of the answer, a JSON object with the
\* backend's message; a connection error gives the error of the library
Message(reply, host, endpoint) ==
    CASE reply.kind = "api_error"  -> PrefixChars(reply) \o TextChars(reply.text)
      [] reply.kind = "http"       ->
            PrefixChars(reply) \o HTTPErrorChars(reply.status, host \o EndpointChars(endpoint))
               \o
               <<" ","-"," ","{","'","m","e","s","s","a","g","e","'",":"," ","'">>
               \o TextChars(reply.text) \o <<"'","}">>
      [] reply.kind = "connection" ->
            PrefixChars(reply) \o ConnectionErrorChars(host, endpoint, reply.library,
                                                       reply.address)
      [] OTHER -> <<>>

\* fetch_order: '404' in error_str
MessageHas404(reply, host) ==
    Contains(Message(reply, host, "/api/v1/orderstatus"), <<"4","0","4">>)

\* fetch_order: 'not found' in error_str.lower()
MessageHasNotFound(reply, host) ==
    Contains(Lower(Message(reply, host, "/api/v1/orderstatus")),
             <<"n","o","t"," ","f","o","u","n","d">>)

\* create_order: 'insufficient' in str(e).lower()
MessageHasInsufficient(reply, host) ==
    Contains(Lower(Message(reply, host, "/api/v1/placeorder")),
             <<"i","n","s","u","f","f","i","c","i","e","n","t">>)

\* fetch_ohlcv(pair, timeframe, ...): no candles when the answer has no data
OpenalgoFetchOhlcv(reply) ==
    LET r == [AdapterResult("fetch_ohlcv", "Openalgo", NoCredentials, reply) EXCEPT
                !.calls = <<"/api/v1/history">>]
    IN  IF _make_request(reply) = ""
        THEN IF reply.data \in {"empty", "missing"}
             THEN [r EXCEPT !.value = "no candles"]
             ELSE [r EXCEPT !.value = "candles"]
        ELSE [r EXCEPT !.outcome = "raised", !.error = "ExchangeError"]

\* fetch_ticker(pair), the definition that is in force (the later one in the
\* class): the last 5m candle from fetch_ohlcv if its close is above 0; None if
\* there is no such candle and on any exception
OpenalgoFetchTicker(reply) ==
    LET r == [AdapterResult("fetch_ticker", "Openalgo", NoCredentials, reply) EXCEPT
                !.calls = <<"/api/v1/history">>]
        ohlcv == OpenalgoFetchOhlcv(reply)
    IN  IF ohlcv.outcome = "raised"
        THEN [r EXCEPT !.value = "None"]
        ELSE IF ohlcv.value = "candles" /\ reply.data # "zero"
        THEN [r EXCEPT !.value = "ticker"]
        ELSE [r EXCEPT !.value = "None"]

\* fetch_order_book(pair, limit)
OpenalgoFetchOrderBook(reply) ==
    LET r == [AdapterResult("fetch_order_book", "Openalgo", NoCredentials, reply) EXCEPT
                !.calls = <<"/api/v1/depth">>]
    IN  IF _make_request(reply) = ""
        THEN [r EXCEPT !.value = "order_book"]
        ELSE [r EXCEPT !.outcome = "raised", !.error = "ExchangeError"]

\* create_order(pair, ordertype, side, amount, rate)
OpenalgoCreateOrder(reply, host) ==
    LET r == [AdapterResult("create_order", "Openalgo", NoCredentials, reply) EXCEPT
                !.calls = <<"/api/v1/placeorder">>]
    IN  IF _make_request(reply) = ""
        THEN [r EXCEPT !.value = "order"]
        ELSE IF MessageHasInsufficient(reply, host)
        THEN [r EXCEPT !.outcome = "raised", !.error = "InsufficientFundsError"]
        ELSE [r EXCEPT !.outcome = "raised", !.error = "ExchangeError"]

\* fetch_order(order_id, pair)
OpenalgoFetchOrder(reply, host) ==
    LET r == [AdapterResult("fetch_order", "Openalgo", NoCredentials, reply) EXCEPT
                !.calls = <<"/api/v1/orderstatus">>]
    IN  IF _make_request(reply) = ""
        THEN [r EXCEPT !.value = "order"]
        ELSE IF MessageHas404(reply, host) \/ MessageHasNotFound(reply, host)
        THEN [r EXCEPT !.value = "canceled order"]
        ELSE [r EXCEPT !.outcome = "raised", !.error = "ExchangeError"]

\* cancel_order(order_id, pair), the definition that is in force (the later one
\* in the class)
OpenalgoCancelOrder(reply) ==
    LET r == [AdapterResult("cancel_order", "Openalgo", NoCredentials, reply) EXCEPT
                !.calls = <<"/api/v1/cancelorder">>]
    IN  IF _make_request(reply) = ""
        THEN [r EXCEPT !.value = "order"]
        ELSE [r EXCEPT !.outcome = "raised", !.error = "ExchangeError"]

\* fetch_balance()
OpenalgoFetchBalance(reply) ==
    LET r == [AdapterResult("fetch_balance", "Openalgo", NoCredentials, reply) EXCEPT
                !.calls = <<"/api/v1/funds">>]
    IN  IF _make_request(reply) = ""
        THEN [r EXCEPT !.value = "balance"]
        ELSE [r EXCEPT !.value = "default balance"]

\* An operation of a constructed Openalgo adapter begins; it goes on to
\* _make_request
OpenalgoCall(operation) ==
    /\ adapter = "Openalgo"
    /\ calling.pc = "idle"
    /\ calling' = [pc |-> "rate_limit", operation |-> operation]
    /\ UNCHANGED <<adapter, ares, _host>>

\* _make_request, "Apply rate limiting": _rate_limit(endpoint) has the limiter of
\* the adapter wait and record the request
_rate_limit ==
    /\ calling.pc = "rate_limit"
    /\ calling' = [calling EXCEPT !.pc = "request"]
    /\ UNCHANGED <<adapter, ares, _host>>

\* _make_request sends the request to _host, the backend answers reply, and the
\* operation makes its result of what _make_request returns or raises
OpenalgoRequest(reply) ==
    /\ calling.pc = "request"
    /\ ares' = CASE calling.operation = "fetch_ticker"     -> OpenalgoFetchTicker(reply)
                 [] calling.operation = "fetch_order_book" -> OpenalgoFetchOrderBook(reply)
                 [] calling.operation = "fetch_ohlcv"      -> OpenalgoFetchOhlcv(reply)
                 [] calling.operation = "create_order"     ->
                       OpenalgoCreateOrder(reply, _host)
                 [] calling.operation = "fetch_order"      ->
                       OpenalgoFetchOrder(reply, _host)
                 [] calling.operation = "cancel_order"     -> OpenalgoCancelOrder(reply)
                 [] calling.operation = "fetch_balance"    -> OpenalgoFetchBalance(reply)
    /\ calling' = NoCall
    /\ UNCHANGED <<adapter, _host>>

(***************************************************************************)
(* Paper broker: candles from a 1-minute series                            *)
(***************************************************************************)
\* The first minute a series may start at, and how many minutes it may span
MaxStart == 4

MaxSeries == 12

\* Two tapes of 1-minute candles, one candle for every minute m
TapeRow(m, tape) ==
    LET o == 100 + ((m * 3 + tape) % 7)
        c == 100 + ((m * 5 + 2 * tape + 2) % 7)
    IN  [timestamp |-> m * 60000,
         open      |-> INR(o),
         high      |-> INR(Max2(o, c) + (m % 2)),
         low       |-> INR((IF o <= c THEN o ELSE c) - ((m + tape) % 2)),
         close     |-> INR(c),
         volume    |-> 10 + m]

\* The minutes without a candle in a series that has a hole
HoleWidth == 6

\* A 1-minute series as _load_csv_data leaves it: the candles of the minutes
\* first..last of a tape, in time order, but for a hole of the given width
\* after the minute hole_at (no hole if hole_at is before first)
SeriesOf(tape, first, last, hole_at, width) ==
    LET Kept(m) == m <= hole_at \/ m > hole_at + width \/ hole_at < first
        minutes == SortedSeq({m \in first..last : Kept(m)})
    IN  [i \in 1..Len(minutes) |-> TapeRow(minutes[i], tape)]

SeriesSet ==
    { SeriesOf(tape, first, last, hole_at, width) :
        tape \in {0, 1}, first \in 0..MaxStart,
        last \in 0..(MaxStart + MaxSeries - 1),
        hole_at \in -1..(MaxStart + MaxSeries - 1), width \in {HoleWidth} }
    \ { <<>> }

\* The arguments of fetch_ohlcv and _resample_candles that are tried; '2h' is a
\* supported timeframe that freq_map does not list
FetchTimeframes == {"1m", "5m", "15m", "2h"}

FetchSinces == {0, 300000}

FetchLimits == {0, 1, 2, 3, 7}

ResampleTimeframes == {"1m", "3m", "5m", "10m", "15m"}

VARIABLES
    series,              \* _csv_data[pair]: the 1-minute frame
    ohlcv                \* the last candle list computed, and from what

candles_vars == <<series, ohlcv>>

CandlesInit ==
    /\ series \in SeriesSet
    /\ ohlcv = [op |-> "load", timeframe |-> "1m", since |-> 0, limit |-> 0,
                from |-> "1m", candles |-> series]

\* fetch_ohlcv(pair, timeframe, since, limit) with CSV data loaded for the pair
CsvFetchOhlcv(timeframe, since, limit) ==
    /\ ohlcv' = [op |-> "fetch_ohlcv", timeframe |-> timeframe, since |-> since,
                 limit |-> limit, from |-> "1m",
                 candles |-> _fetch_ohlcv_from_csv(series, timeframe, since, limit)]
    /\ UNCHANGED series

\* _resample_candles(df, timeframe) on the 1-minute frame
ResampleSeries(timeframe) ==
    /\ ohlcv' = [op |-> "resample", timeframe |-> timeframe, since |-> 0, limit |-> 0,
                 from |-> "1m", candles |-> _resample_candles(series, timeframe)]
    /\ UNCHANGED series

\* _resample_candles(df, timeframe) on the frame a resampling returned
ResampleAgain(timeframe) ==
    /\ ohlcv.op = "resample"
    /\ ohlcv' = [op |-> "resample again", timeframe |-> timeframe, since |-> 0,
                 limit |-> 0, from |-> ohlcv.timeframe,
                 candles |-> _resample_candles(ohlcv.candles, timeframe)]
    /\ UNCHANGED series

(***************************************************************************)
(* SymbolMapper (freqtrade/exchange/symbol_mapper.py)                      *)
(*                                                                         *)
(* A dict is its items in insertion order.  The inner dicts of             *)
(* DEFAULT_MAPPINGS are objects of the class: dict.copy() is shallow, so   *)
(* an item of an instance either refers to the class's inner dict of the   *)
(* same key (shared) or holds an inner dict of its own.                    *)
(***************************************************************************)
\* Bound of the model: the calls that change a mapper
MaxMapperOps == 2

MapperIds == 1..2

\* the keys of reverse_mappings
ReverseBrokers == {"openalgo", "smartapi", "paperbroker"}

\* the characters of the symbols that the model uses
Spell(s) ==
    CASE s = "NIFTY50"     -> <<"N","I","F","T","Y","5","0">>
      [] s = "BANKNIFTY"   -> <<"B","A","N","K","N","I","F","T","Y">>
      [] s = "FINNIFTY"    -> <<"F","I","N","N","I","F","T","Y">>
      [] s = "MIDCPNIFTY"  -> <<"M","I","D","C","P","N","I","F","T","Y">>
      [] s = "RELIANCE"    -> <<"R","E","L","I","A","N","C","E">>
      [] s = "NIFTY 50"    -> <<"N","I","F","T","Y"," ","5","0">>
      [] s = "NIFTY BANK"  -> <<"N","I","F","T","Y"," ","B","A","N","K">>
      [] s = "NIFTY FIN SERVICE" ->
             <<"N","I","F","T","Y"," ","F","I","N"," ","S","E","R","V","I","C","E">>
      [] s = "NIFTY MID SELECT" ->
             <<"N","I","F","T","Y"," ","M","I","D"," ","S","E","L","E","C","T">>
      [] s = "NIFTY"       -> <<"N","I","F","T","Y">>
      [] s = "RELIANCE-EQ" -> <<"R","E","L","I","A","N","C","E","-","E","Q">>
      [] s = "NIFTY50/INR" -> <<"N","I","F","T","Y","5","0","/","I","N","R">>
      [] s = "RELIANCE/INR" -> <<"R","E","L","I","A","N","C","E","/","I","N","R">>
      [] s = "INR"         -> <<"I","N","R">>
      [] s = ""            -> <<>>
      [] s = "-EQ"         -> <<"-","E","Q">>

\* DEFAULT_MAPPINGS as the class is defined
SeedTable ==
    << [key |-> "NIFTY50", value |->
          [openalgo |-> [symbol |-> "NIFTY 50", exchange |-> "NSE"],
           smartapi |-> [symbol |-> "NIFTY 50", token |-> "99926000", exchange |-> "NSE"],
           paperbroker |-> [symbol |-> "NIFTY50"]]],
       [key |-> "BANKNIFTY", value |->
          [openalgo |-> [symbol |-> "NIFTY BANK", exchange |-> "NSE"],
           smartapi |-> [symbol |-> "NIFTY BANK", token |-> "99926009", exchange |-> "NSE"],
           paperbroker |-> [symbol |-> "BANKNIFTY"]]],
       [key |-> "FINNIFTY", value |->
          [openalgo |-> [symbol |-> "NIFTY FIN SERVICE", exchange |-> "NSE"],
           smartapi |-> [symbol |-> "NIFTY FIN SERVICE", token |-> "99926037",
                         exchange |-> "NSE"],
           paperbroker |-> [symbol |-> "FINNIFTY"]]],
       [key |-> "MIDCPNIFTY", value |->
          [openalgo |-> [symbol |-> "NIFTY MID SELECT", exchange |-> "NSE"],
           smartapi |-> [symbol |-> "NIFTY MID SELECT", token |-> "99926074",
                         exchange |-> "NSE"],
           paperbroker |-> [symbol |-> "MIDCPNIFTY"]]] >>

\* SMARTAPI_SUFFIXES, in the order of its values()
SMARTAPI_SUFFIXES ==
    << [key |-> "NSE", value |-> "-EQ"], [key |-> "BSE", value |-> "-EQ"],
       [key |-> "NFO", value |-> ""], [key |-> "MCX", value |-> ""] >>

\* The files a config_path may name: "" is None, a file that does not exist, a
\* file that is not JSON, and a file of custom mappings (its items in order)
ConfigPaths == {"", "missing.json", "broken.json", "custom.json"}

CustomMappings ==
    << [key |-> "RELIANCE", value |->
          [smartapi |-> [symbol |-> "RELIANCE-EQ", token |-> "2885", exchange |-> "NSE"]]],
       [key |-> "NIFTY50", value |->
          [openalgo |-> [symbol |-> "NIFTY", exchange |-> "NSE"]]] >>

\* arguments of add_mapping
MappedSymbols == {"NIFTY50", "RELIANCE"}

MappedBrokers == {"openalgo", "zerodha"}

BrokerMappings ==
    { [symbol |-> "NIFTY", exchange |-> "NSE"],
      [symbol |-> "NIFTY BANK", exchange |-> "NSE"],
      [exchange |-> "NFO"] }

\* arguments of the translations
TranslatedPairs == {"NIFTY50/INR", "RELIANCE"}

TranslatedSymbols == {"NIFTY", "NIFTY 50", "RELIANCE-EQ"}

VARIABLES
    DEFAULT_MAPPINGS,    \* SymbolMapper.DEFAULT_MAPPINGS: symbol -> inner dict
    mappers,             \* the instances: created, mappings, reverse_mappings
    mapper_ops,          \* how many calls have changed a mapper
    mres                 \* the last call on a mapper and what it returned

mapper_vars == <<DEFAULT_MAPPINGS, mappers, mapper_ops, mres>>

NoMapper == [created |-> FALSE, mappings |-> <<>>, reverse_mappings |-> EmptyMap]

MapperResult(op, instance) ==
    [op |-> op, instance |-> instance, symbol |-> "", broker |-> "", mapping |-> EmptyMap,
     value |-> <<>>]

MapperInit ==
    /\ DEFAULT_MAPPINGS = SeedTable
    /\ mappers = [i \in MapperIds |-> NoMapper]
    /\ mapper_ops = 0
    /\ mres = MapperResult("import", 0)

\* the inner dict an item of self.mappings stands for
InnerDict(defaults, item) ==
    IF item.shared THEN DictGet(defaults, item.key) ELSE item.value

\* self.mappings as a dict of dicts: symbol -> broker -> mapping
MappingsOf(defaults, mappings) ==
    [i \in 1..Len(mappings) |->
        [key |-> mappings[i].key, value |-> InnerDict(defaults, mappings[i])]]

\* self.DEFAULT_MAPPINGS.copy(): every item refers to the class's inner dict
ShallowCopy(defaults) ==
    [i \in 1..Len(defaults) |-> [key |-> defaults[i].key, shared |-> TRUE, value |-> EmptyMap]]

\* self.mappings.update(custom_mappings): the loaded inner dicts are new objects
RECURSIVE Update(_, _)
Update(mappings, custom) ==
    IF custom = <<>> THEN mappings
    ELSE LET item == [key |-> Head(custom).key, shared |-> FALSE,
                      value |-> Head(custom).value]
         IN  Update(IF \E i \in 1..Len(mappings) : mappings[i].key = item.key
                    THEN [i \in 1..Len(mappings) |->
                            IF mappings[i].key = item.key THEN item ELSE mappings[i]]
                    ELSE Append(mappings, item),
                    Tail(custom))

\* load_mappings(config_path): what it leaves in self.mappings
load_mappings(mappings, config_path) ==
    IF config_path = "custom.json" THEN Update(mappings, CustomMappings)
    ELSE mappings

\* mapping.get('symbol', freqtrade_symbol)
ReverseKey(mapping, freqtrade_symbol) == Get(mapping, "symbol", freqtrade_symbol)

\* _build_reverse_mappings: a later item of self.mappings overwrites an earlier
\* one that has the same key
_build_reverse_mappings(m) ==
    [broker \in ReverseBrokers |->
        LET at(i) == broker \in DOMAIN m[i].value
            keys == {ReverseKey(m[i].value[broker], m[i].key) :
                        i \in {j \in 1..Len(m) : broker \in DOMAIN m[j].value}}
        IN  [key \in keys |->
                m[CHOOSE i \in 1..Len(m) :
                     /\ at(i) /\ ReverseKey(m[i].value[broker], m[i].key) = key
                     /\ \A j \in (i + 1)..Len(m) :
                          ~(at(j) /\ ReverseKey(m[j].value[broker], m[j].key) = key)].key]]

\* SymbolMapper(config_path)
NewSymbolMapper(i, config_path) ==
    /\ ~mappers[i].created
    /\ LET mappings == IF config_path # ""
                       THEN load_mappings(ShallowCopy(DEFAULT_MAPPINGS), config_path)
                       ELSE ShallowCopy(DEFAULT_MAPPINGS)
       IN  mappers' = [mappers EXCEPT ![i] =
               [created |-> TRUE, mappings |-> mappings,
                reverse_mappings |->
                    _build_reverse_mappings(MappingsOf(DEFAULT_MAPPINGS, mappings))]]
    /\ mres' = [MapperResult("__init__", i) EXCEPT !.symbol = config_path]
    /\ UNCHANGED <<DEFAULT_MAPPINGS, mapper_ops>>

\* mapper.load_mappings(config_path), called on an instance
LoadMappings(i, config_path) ==
    /\ mappers[i].created
    /\ mapper_ops < MaxMapperOps
    /\ mappers' = [mappers EXCEPT ![i].mappings = load_mappings(@, config_path)]
    /\ mapper_ops' = mapper_ops + 1
    /\ mres' = [MapperResult("load_mappings", i) EXCEPT !.symbol = config_path]
    /\ UNCHANGED DEFAULT_MAPPINGS

\* mapper.add_mapping(freqtrade_symbol, broker, mapping)
add_mapping(i, freqtrade_symbol, broker, mapping) ==
    /\ mappers[i].created
    /\ mapper_ops < MaxMapperOps
    /\ LET old == mappers[i].mappings
           present == \E k \in 1..Len(old) : old[k].key = freqtrade_symbol
           found == IF present THEN old
                    ELSE Append(old, [key |-> freqtrade_symbol, shared |-> FALSE,
                                      value |-> EmptyMap])
           k == CHOOSE n \in 1..Len(found) : found[n].key = freqtrade_symbol
           defaults == IF found[k].shared
                       THEN DictSet(DEFAULT_MAPPINGS, freqtrade_symbol,
                                    Put(DictGet(DEFAULT_MAPPINGS, freqtrade_symbol),
                                        broker, mapping))
                       ELSE DEFAULT_MAPPINGS
           mappings == IF found[k].shared THEN found
                       ELSE [found EXCEPT ![k].value = Put(@, broker, mapping)]
       IN  /\ DEFAULT_MAPPINGS' = defaults
           /\ mappers' = [mappers EXCEPT ![i] =
                  [created |-> TRUE, mappings |-> mappings,
                   reverse_mappings |->
                       _build_reverse_mappings(MappingsOf(defaults, mappings))]]
    /\ mapper_ops' = mapper_ops + 1
    /\ mres' = [MapperResult("add_mapping", i) EXCEPT
                   !.symbol = freqtrade_symbol, !.broker = broker, !.mapping = mapping]

\* _default_conversion(symbol, quote, broker, exchange): the symbol is spelled out
_default_conversion(symbol, quote, broker, exchange) ==
    IF broker = "openalgo" THEN <<symbol, exchange>>
    ELSE IF broker = "smartapi"
         THEN LET suffix == IF DictHas(SMARTAPI_SUFFIXES, exchange)
                            THEN DictGet(SMARTAPI_SUFFIXES, exchange) ELSE "-EQ"
              IN  <<symbol \o Spell(suffix), "0", exchange>>
    ELSE IF broker = "paperbroker" THEN <<symbol, quote>>
    ELSE <<symbol>>

\* pair.split('/')[1] if there is one, else "INR"
QuoteOf(pair) ==
    IF \E n \in 1..Len(pair) : pair[n] = "/"
    THEN LET rest == SubSeq(pair, Len(BeforeSlash(pair)) + 2, Len(pair))
         IN  IF \E n \in 1..Len(rest) : rest[n] = "/"
             THEN BeforeSlash(rest) ELSE rest
    ELSE Spell("INR")

\* to_broker_format(pair, broker, default_exchange) on the mappings m
to_broker_format(m, pair, broker, default_exchange) ==
    LET base_symbol == BeforeSlash(pair)
        quote_currency == QuoteOf(pair)
        known == {n \in 1..Len(m) :
                     Spell(m[n].key) = base_symbol /\ broker \in DOMAIN m[n].value}
    IN  IF known # {} /\ broker \in ReverseBrokers
        THEN LET mapping == m[CHOOSE n \in known : TRUE].value[broker]
                 symbol == IF "symbol" \in DOMAIN mapping
                           THEN Spell(mapping.symbol) ELSE base_symbol
             IN  IF broker = "openalgo"
                 THEN <<symbol, Get(mapping, "exchange", default_exchange)>>
                 ELSE IF broker = "smartapi"
                 THEN <<symbol, Get(mapping, "token", "0"),
                        Get(mapping, "exchange", default_exchange)>>
                 ELSE <<symbol, quote_currency>>
        ELSE _default_conversion(base_symbol, quote_currency, broker, default_exchange)

\* the first suffix of SMARTAPI_SUFFIXES.values() that ends the symbol is cut off
WithoutSuffix(symbol) ==
    LET hits == {n \in 1..Len(SMARTAPI_SUFFIXES) :
                    /\ SMARTAPI_SUFFIXES[n].value # ""
                    /\ EndsWith(symbol, Spell(SMARTAPI_SUFFIXES[n].value))}
    IN  IF hits = {} THEN symbol
        ELSE LET n == CHOOSE h \in hits : \A g \in hits : h <= g
             IN  SubSeq(symbol, 1, Len(symbol) - Len(Spell(SMARTAPI_SUFFIXES[n].value)))

\* from_broker_format(broker, symbol) with quote_currency = "INR"
from_broker_format(reverse, broker, symbol0) ==
    LET symbol == IF broker = "smartapi" THEN WithoutSuffix(symbol0) ELSE symbol0
        hits == IF broker \in DOMAIN reverse
                THEN {key \in DOMAIN reverse[broker] : Spell(key) = symbol}
                ELSE {}
    IN  (IF hits # {} THEN Spell(reverse[broker][CHOOSE key \in hits : TRUE])
         ELSE symbol) \o <<"/">> \o Spell("INR")

ToBrokerFormat(i, pair, broker) ==
    /\ mappers[i].created
    /\ mres' = [MapperResult("to_broker_format", i) EXCEPT
                   !.symbol = pair, !.broker = broker,
                   !.value = to_broker_format(MappingsOf(DEFAULT_MAPPINGS,
                                                         mappers[i].mappings),
                                              Spell(pair), broker, "NSE")]
    /\ UNCHANGED <<DEFAULT_MAPPINGS, mappers, mapper_ops>>

FromBrokerFormat(i, broker, symbol) ==
    /\ mappers[i].created
    /\ mres' = [MapperResult("from_broker_format", i) EXCEPT
                   !.symbol = symbol, !.broker = broker,
                   !.value = from_broker_format(mappers[i].reverse_mappings, broker,
                                                Spell(symbol))]
    /\ UNCHANGED <<DEFAULT_MAPPINGS, mappers, mapper_ops>>

(***************************************************************************)
(* Lot-size lookup of option symbols, by both managers:                    *)
(*   freqtrade/data/lot_size_manager.py  (get_lot_size above)              *)
(*   freqtrade/exchange/lot_size_manager.py                                *)
(***************************************************************************)
\* The parts an option symbol is written from
Underlyings == { <<"N","I","F","T","Y">>, <<"B","A","N","K","N","I","F","T","Y">>,
                 <<"R","E","L","I","A","N","C","E">>, <<"A","C","M","E">> }

\* no expiry, 25DEC, 25DEC24, DEC24 and 2024DEC25
ExpiryTokens == { <<>>, <<"2","5","D","E","C">>, <<"2","5","D","E","C","2","4">>,
                  <<"D","E","C","2","4">>, <<"2","0","2","4","D","E","C","2","5">> }

Strikes == { <<"2","4","5","0","0">>, <<"5","0">> }

OptionSuffixes == { <<"C","E">>, <<"P","E">> }

Quotes == { <<>>, <<"/","I","N","R">> }

\* exchange/lot_size_manager.py: DEFAULT_LOT_SIZES, which _lot_sizes holds when
\* there is no cache file
DEFAULT_LOT_SIZES ==
    { <<<<"N","I","F","T","Y">>, 25>>,
      <<<<"B","A","N","K","N","I","F","T","Y">>, 15>>,
      <<<<"F","I","N","N","I","F","T","Y">>, 25>>,
      <<<<"M","I","D","C","P","N","I","F","T","Y">>, 50>>,
      <<<<"N","I","F","T","Y","I","T">>, 25>>,
      <<<<"S","E","N","S","E","X">>, 10>>,
      <<<<"B","A","N","K","E","X">>, 15>> }

\* re.search(pattern, s).start() for a pattern anchored at the end: the least
\* position from which the rest of s matches; 0 when there is none
LeftmostMatch(s, Matches(_, _)) ==
    IF \E i \in 1..Len(s) : Matches(s, i)
    THEN CHOOSE i \in 1..Len(s) : Matches(s, i) /\ \A j \in 1..(i - 1) : ~Matches(s, j)
    ELSE 0

\* does s[i..] match [A-Z]{3}\d{2}$ as a whole
MonthYearMatchesAt(s, i) ==
    /\ i + 4 = Len(s)
    /\ \A j \in i..(i + 2) : IsUpperLetter(s[j])
    /\ AllDigits(SubSeq(s, i + 3, Len(s)))

\* does s[i..] match \d{4}[A-Z]{3}\d{1,2}$ as a whole
YearFirstMatchesAt(s, i) ==
    \E b \in 1..2 :
        /\ i + 4 + 3 + b - 1 = Len(s)
        /\ AllDigits(SubSeq(s, i, i + 3))
        /\ \A j \in (i + 4)..(i + 6) : IsUpperLetter(s[j])
        /\ AllDigits(SubSeq(s, i + 7, Len(s)))

\* s.split(sep)[0]
BeforeFirst(s, sep) ==
    IF Contains(s, sep)
    THEN LET k == CHOOSE i \in 1..(Len(s) - Len(sep) + 1) :
                     /\ SubSeq(s, i, i + Len(sep) - 1) = sep
                     /\ \A j \in 1..(i - 1) : SubSeq(s, j, j + Len(sep) - 1) # sep
         IN  SubSeq(s, 1, k - 1)
    ELSE s

\* s.replace(old, '')
RECURSIVE Remove(_, _)
Remove(s, old) ==
    IF Len(s) < Len(old) THEN s
    ELSE IF SubSeq(s, 1, Len(old)) = old
         THEN Remove(SubSeq(s, Len(old) + 1, Len(s)), old)
         ELSE <<Head(s)>> \o Remove(Tail(s), old)

\* exchange LotSizeManager._extract_underlying(symbol)
_extract_underlying(symbol) ==
    LET sym == BeforeSlash(symbol) IN
    IF EndsWith(sym, <<"C","E">>) \/ EndsWith(sym, <<"P","E">>)
    THEN LET base0  == SubSeq(sym, 1, Len(sym) - 2)
             strike == StrikeMatchStart(base0)
             base1  == IF strike > 0 THEN SubSeq(base0, 1, strike - 1) ELSE base0
             first  == ExpiryMatchStart(base1)
             second == LeftmostMatch(base1, MonthYearMatchesAt)
             third  == LeftmostMatch(base1, YearFirstMatchesAt)
             cut    == IF first > 0 THEN first
                       ELSE IF second > 0 THEN second
                       ELSE third
         IN  IF cut > 0 THEN SubSeq(base1, 1, cut - 1) ELSE base1
    ELSE IF Contains(Upper(sym), <<"F","U","T">>) THEN BeforeFirst(sym, <<"F","U","T">>)
    ELSE sym

\* exchange LotSizeManager._is_derivative(symbol)
_is_derivative(symbol) ==
    \/ EndsWith(symbol, <<"C","E">>) \/ EndsWith(symbol, <<"P","E">>)
    \/ Contains(Upper(symbol), <<"F","U","T">>)
    \/ \E month \in MonthNames : Contains(Upper(symbol), month)

\* exchange LotSizeManager.get_lot_size(symbol)
exchange_get_lot_size(symbol) ==
    LET underlying == _extract_underlying(symbol) IN
    IF InTable(DEFAULT_LOT_SIZES, underlying) THEN Lookup(DEFAULT_LOT_SIZES, underlying)
    ELSE IF _is_derivative(symbol)
         THEN LET clean_symbol == Remove(underlying, <<"-","E","Q">>)
              IN  IF InTable(DEFAULT_LOT_SIZES, clean_symbol)
                  THEN Lookup(DEFAULT_LOT_SIZES, clean_symbol)
                  ELSE 1
    ELSE 1

VARIABLES
    lookup                 \* the last lookup: the symbol and what both managers returned

lots_vars == <<lookup>>

LotsInit ==
    lookup = [op |-> "import", symbol |-> <<>>, underlying |-> <<>>, expiry |-> <<>>,
            base_symbol |-> <<>>, lot_size |-> 0,
            exchange_underlying |-> <<>>, exchange_lot_size |-> 0]

\* get_lot_size(symbol) of both managers on an option symbol
GetLotSize(underlying, expiry, strike, suffix, quote) ==
    LET symbol == underlying \o expiry \o strike \o suffix \o quote IN
    lookup' = [op |-> "get_lot_size", symbol |-> symbol, underlying |-> underlying,
             expiry |-> expiry,
             base_symbol |-> _extract_base_symbol(symbol),
             lot_size |-> get_lot_size(symbol),
             exchange_underlying |-> _extract_underlying(symbol),
             exchange_lot_size |-> exchange_get_lot_size(symbol)]

(***************************************************************************)
(* EndpointRateLimiter (freqtrade/exchange/rate_limiter.py): a default     *)
(* RateLimiter and one RateLimiter per endpoint, called by several threads *)
(***************************************************************************)
\* Bound of the model: the calls the threads make in all
MaxEndpointCalls == 3

\* the endpoint argument: "" stands for None
Endpoints == {"", "placeorder", "quotes"}

\* the policy of the default limiter
DefaultPolicy == [Unlimited EXCEPT !.requests_per_second = 1, !.min_request_interval = 30]

\* add_endpoint_limit arguments: endpoint and requests_per_second,
\* requests_per_minute, min_request_interval
EndpointPolicies ==
    { [Unlimited EXCEPT !.requests_per_second = 1],
      [Unlimited EXCEPT !.requests_per_minute = 1, !.min_request_interval = 30] }

\* the calls a thread can make: on the EndpointRateLimiter, and on the default
\* RateLimiter that was handed to it
EndpointCalls ==
    {"wait_if_needed", "add_endpoint_limit", "get_stats", "default.wait_if_needed",
     "default.get_stats", "default.reset"}

\* The time that passes before a call reads the clock, in ticks
EndpointGaps == {0, 1}

VARIABLES
    e_now,               \* the clock, time.time()
    default_limiter,     \* _default_limiter: a RateLimiter
    endpoint_limiters,   \* _endpoint_limiters: endpoint -> RateLimiter
    e_lock,              \* EndpointRateLimiter._lock: 0 when free, else its holder
    frames,              \* per thread: the call it is in and where it stands
    e_log                \* the calls that have returned, in the order they returned

endpoint_vars == <<e_now, default_limiter, endpoint_limiters, e_lock, frames, e_log>>

\* Fault variant of NewLimiter: the lock of a new limiter is never released
NewLimiter_locked(cfg) ==
    [cfg |-> cfg, request_times |-> <<>>, last_request_time |-> 0, lock |-> 3,
     total_requests |-> 0, total_wait_time |-> 0, rate_limit_hits |-> 0]

\* RateLimiter(...): a limiter as its constructor leaves it
NewLimiter(cfg) ==
    [cfg |-> cfg, request_times |-> <<>>, last_request_time |-> 0, lock |-> 0,
     total_requests |-> 0, total_wait_time |-> 0, rate_limit_hits |-> 0]

NoFrame ==
    [pc |-> "idle", op |-> "", endpoint |-> "", policy |-> Unlimited, limiter |-> "",
     wake |-> 0, limiter_wait |-> 0, limiter_cfg |-> Unlimited,
     default_wait |-> 0, endpoint_wait |-> 0, wait_time |-> 0,
     default_records |-> 0, endpoint_records |-> 0, lookup_at |-> 0]

\* EndpointRateLimiter(default_limiter)
EndpointInit ==
    /\ e_now = StartTime
    /\ default_limiter = NewLimiter(DefaultPolicy)
    /\ endpoint_limiters = EmptyMap
    /\ e_lock = 0
    /\ frames = [th \in Threads |-> NoFrame]
    /\ e_log = <<>>

\* the calls begun so far
CallsBegun == Len(e_log) + Cardinality({th \in Threads : frames[th].pc # "idle"})

\* A thread begins a call: it stands before the first lock the call takes
BeginCall(th, op, endpoint, policy) ==
    /\ frames[th].pc = "idle"
    /\ CallsBegun < MaxEndpointCalls
    /\ op = "add_endpoint_limit" => endpoint # ""
    /\ frames' = [frames EXCEPT ![th] =
          [NoFrame EXCEPT
             !.op = op,
             !.endpoint = IF op \in {"wait_if_needed", "add_endpoint_limit"}
                          THEN endpoint ELSE "",
             !.policy = IF op = "add_endpoint_limit" THEN policy ELSE Unlimited,
             !.limiter = IF op \in {"wait_if_needed", "default.wait_if_needed"}
                         THEN "default" ELSE "",
             !.pc = CASE op = "wait_if_needed" -> "enter"
                      [] op = "default.wait_if_needed" -> "enter"
                      [] op = "add_endpoint_limit" -> "add"
                      [] op = "get_stats" -> "stats"
                      [] op = "default.get_stats" -> "limiter_stats"
                      [] op = "default.reset" -> "limiter_reset"]]
    /\ UNCHANGED <<e_now, default_limiter, endpoint_limiters, e_lock, e_log>>

\* the limiter a frame is calling
LimiterOf(name) == IF name = "default" THEN default_limiter ELSE endpoint_limiters[name]

\* the limiters after the one called name has become l
SetLimiter(name, l) ==
    IF name = "default"
    THEN /\ default_limiter' = l
         /\ UNCHANGED endpoint_limiters
    ELSE /\ endpoint_limiters' = [endpoint_limiters EXCEPT ![name] = l]
         /\ UNCHANGED default_limiter

\* the call of a thread returns: it is logged and the thread is idle again
Return(th, frame) ==
    /\ frames' = [frames EXCEPT ![th] = NoFrame]
    /\ e_log' = Append(e_log, [thread |-> th, op |-> frame.op, endpoint |-> frame.endpoint,
                              default_wait |-> frame.default_wait,
                              endpoint_wait |-> frame.endpoint_wait,
                              returned |-> frame.wait_time,
                              default_records |-> frame.default_records,
                              endpoint_records |-> frame.endpoint_records,
                              limiter |-> IF frame.endpoint_records > 0
                                          THEN frame.limiter ELSE "",
                              lookup_at |-> frame.lookup_at])

\* RateLimiter.wait_if_needed from "with self._lock" up to "Wait if needed", on
\* the limiter the frame is calling
EnterLimiter(th, gap) ==
    /\ frames[th].pc = "enter"
    /\ LimiterOf(frames[th].limiter).lock = 0
    /\ e_now' = e_now + gap
    /\ LET l == LimiterOf(frames[th].limiter)
           current_time == e_now + gap
           times == _cleanup_old_requests(l.cfg, l.request_times, current_time)
           wait_time == WaitTime(l.cfg, times, l.last_request_time, current_time)
       IN  /\ SetLimiter(frames[th].limiter,
                  [l EXCEPT !.lock = th, !.request_times = times,
                            !.rate_limit_hits = IF wait_time > 0 THEN @ + 1 ELSE @,
                            !.total_wait_time = IF wait_time > 0 THEN @ + wait_time ELSE @])
           /\ frames' = [frames EXCEPT ![th] =
                  [@ EXCEPT !.pc = IF wait_time > 0 THEN "sleeping" ELSE "recording",
                            !.wake = current_time + wait_time,
                            !.limiter_wait = wait_time,
                            !.limiter_cfg = l.cfg]]
    /\ UNCHANGED <<e_lock, e_log>>

\* does wait_if_needed(endpoint) go on to look for an endpoint limiter
HasEndpoint(endpoint) == endpoint # ""

\* "if endpoint in self._endpoint_limiters"
EndpointApplies(endpoint, limiters) == endpoint \in DOMAIN limiters

\* Fault variant of AddWait: the wait of the limiter replaces the sum
AddWait_overwrite(wait_time, limiter_wait) == limiter_wait

\* "wait_time += limiter.wait_if_needed()"
AddWait(wait_time, limiter_wait) == wait_time + limiter_wait

\* RateLimiter.wait_if_needed from the end of the wait to its return: the request
\* is recorded at current_time and the limiter's lock is released.  The caller
\* then goes on: EndpointRateLimiter.wait_if_needed adds the wait to its sum and
\* either looks for an endpoint limiter or, after the endpoint limiter, releases
\* its own lock and returns.
LeaveLimiter(th, current_time) ==
    LET frame == frames[th]
        l == LimiterOf(frame.limiter)
        recorded_l == [l EXCEPT !.request_times = Append(@, current_time),
                                !.last_request_time = current_time,
                                !.total_requests = @ + 1,
                                !.lock = 0]
        after == IF frame.limiter = "default"
                 THEN [frame EXCEPT !.default_wait = frame.limiter_wait,
                                    !.wait_time = AddWait(@, frame.limiter_wait),
                                    !.default_records = @ + 1]
                 ELSE [frame EXCEPT !.endpoint_wait = frame.limiter_wait,
                                    !.wait_time = AddWait(@, frame.limiter_wait),
                                    !.endpoint_records = @ + 1]
    IN  /\ SetLimiter(frame.limiter, recorded_l)
        /\ IF frame.limiter = "default" /\ frame.op = "wait_if_needed"
              /\ HasEndpoint(frame.endpoint)
           THEN /\ frames' = [frames EXCEPT ![th] = [after EXCEPT !.pc = "lookup"]]
                /\ UNCHANGED <<e_lock, e_log>>
           ELSE /\ Return(th, after)
                /\ e_lock' = IF frame.limiter = "default" THEN e_lock ELSE 0

\* time.sleep returns and the request is recorded
WakeLimiter(th) ==
    /\ frames[th].pc = "sleeping"
    /\ e_now' = Max2(e_now, frames[th].wake)
    /\ LeaveLimiter(th, Max2(e_now, frames[th].wake))

\* the request of a call that did not sleep is recorded
RecordLimiter(th) ==
    /\ frames[th].pc = "recording"
    /\ e_now' = e_now
    /\ LeaveLimiter(th, frames[th].wake)

\* EndpointRateLimiter.wait_if_needed, "with self._lock": the endpoint limiter is
\* looked up; without one the lock is released and the call returns
LookupEndpoint(th) ==
    /\ frames[th].pc = "lookup"
    /\ e_lock = 0
    /\ LET frame == [frames[th] EXCEPT !.lookup_at = Len(e_log)] IN
       IF EndpointApplies(frame.endpoint, endpoint_limiters)
       THEN /\ e_lock' = th
            /\ frames' = [frames EXCEPT ![th] =
                   [frame EXCEPT !.pc = "enter",
                                 !.limiter = frame.endpoint]]
            /\ UNCHANGED e_log
       ELSE /\ e_lock' = 0
            /\ Return(th, frame)
    /\ UNCHANGED <<e_now, default_limiter, endpoint_limiters>>

\* add_endpoint_limit(endpoint, ...): under the lock, a new limiter replaces
\* whatever the endpoint had
add_endpoint_limit(th) ==
    /\ frames[th].pc = "add"
    /\ e_lock = 0
    /\ endpoint_limiters' =
          Put(endpoint_limiters, frames[th].endpoint, NewLimiter(frames[th].policy))
    /\ Return(th, frames[th])
    /\ UNCHANGED <<e_now, default_limiter, e_lock>>

\* EndpointRateLimiter.get_stats, "with self._lock"
get_stats(th) ==
    /\ frames[th].pc = "stats"
    /\ e_lock = 0
    /\ e_lock' = th
    /\ frames' = [frames EXCEPT ![th].pc = "limiter_stats"]
    /\ UNCHANGED <<e_now, default_limiter, endpoint_limiters, e_log>>

\* RateLimiter.get_stats of the default limiter, under its lock, which is taken
\* and released here.  Of the statistics the frame keeps total_requests.  Called
\* on the default limiter itself the call returns; inside
\* EndpointRateLimiter.get_stats the thread goes on to the endpoint limiters,
\* still holding the lock of the EndpointRateLimiter
limiter_get_stats(th) ==
    /\ frames[th].pc = "limiter_stats"
    /\ default_limiter.lock = 0
    /\ LET frame == [frames[th] EXCEPT !.wait_time = default_limiter.total_requests] IN
       IF frame.op = "get_stats"
       THEN /\ frames' = [frames EXCEPT ![th] = [frame EXCEPT !.pc = "endpoint_stats"]]
            /\ UNCHANGED e_log
       ELSE Return(th, frame)
    /\ UNCHANGED <<e_now, default_limiter, endpoint_limiters, e_lock>>

\* EndpointRateLimiter.get_stats after the default limiter: the statistics of the
\* endpoint limiters are read (nobody holds their locks, as they are only taken
\* under the lock of the EndpointRateLimiter), the lock of the
\* EndpointRateLimiter is released and the statistics gathered are returned
endpoint_get_stats(th) ==
    /\ frames[th].pc = "endpoint_stats"
    /\ \A e \in DOMAIN endpoint_limiters : endpoint_limiters[e].lock = 0
    /\ e_lock' = 0
    /\ Return(th, frames[th])
    /\ UNCHANGED <<e_now, default_limiter, endpoint_limiters>>

\* RateLimiter.reset of the default limiter, under its lock
limiter_reset(th) ==
    /\ frames[th].pc = "limiter_reset"
    /\ default_limiter.lock = 0
    /\ default_limiter' = [default_limiter EXCEPT
                              !.request_times = <<>>,
                              !.last_request_time = 0,
                              !.total_requests = 0,
                              !.total_wait_time = 0,
                              !.rate_limit_hits = 0]
    /\ Return(th, frames[th])
    /\ UNCHANGED <<e_now, endpoint_limiters, e_lock>>

(***************************************************************************)
(* Paper broker: the prices quoted to its callers                          *)
(***************************************************************************)
\* The requests that answer with the current price of a pair: fetch_ticker
\* ('last'), fetch_order_book (the level both sides start from) and
\* create_order (current_price)
QuoteOps == {"fetch_ticker", "fetch_order_book", "create_order"}

\* History: the price last quoted for each pair
VARIABLE quoted

quote_vars == <<quoted>>

QuotesInit == quoted = EmptyMap

\* the call just answered quoted a price for its pair
Quoted(r) == r.op \in QuoteOps /\ r.outcome = "ok"

\* the history after the call that res' records
RecordQuote ==
    quoted' = IF Quoted(res') THEN Put(quoted, res'.pair, res'.price) ELSE quoted

\* _simulate_price takes the random-walk branch for the pair
Synthetic(pair) == ~(use_csv_data /\ pair \in DOMAIN csv_data)

(***************************************************************************)
(* Specifications                                                          *)
(***************************************************************************)
\* What each machine leaves alone, and all the variables
beside_broker ==
    <<rl_vars, callers_vars, factory_vars, adapter_vars, candles_vars, mapper_vars,
      lots_vars, endpoint_vars, quote_vars>>

beside_limiter ==
    <<broker_vars, res, callers_vars, factory_vars, adapter_vars, candles_vars,
      mapper_vars, lots_vars, endpoint_vars, quote_vars>>

beside_callers ==
    <<rl_vars, factory_vars, adapter_vars, candles_vars, mapper_vars, lots_vars,
      endpoint_vars, quote_vars>>

beside_factory ==
    <<broker_vars, res, rl_vars, callers_vars, adapter_vars, candles_vars, mapper_vars,
      lots_vars, endpoint_vars, quote_vars>>

beside_adapters ==
    <<broker_vars, res, rl_vars, callers_vars, factory_vars, candles_vars, mapper_vars,
      lots_vars, endpoint_vars, quote_vars>>

beside_candles ==
    <<broker_vars, res, rl_vars, callers_vars, factory_vars, adapter_vars, mapper_vars,
      lots_vars, endpoint_vars, quote_vars>>

beside_mapper ==
    <<broker_vars, res, rl_vars, callers_vars, factory_vars, adapter_vars,
      candles_vars, lots_vars, endpoint_vars, quote_vars>>

beside_lots ==
    <<broker_vars, res, rl_vars, callers_vars, factory_vars, adapter_vars,
      candles_vars, mapper_vars, endpoint_vars, quote_vars>>

beside_endpoint ==
    <<broker_vars, res, rl_vars, callers_vars, factory_vars, adapter_vars,
      candles_vars, mapper_vars, lots_vars, quote_vars>>

beside_quotes ==
    <<rl_vars, callers_vars, factory_vars, adapter_vars, candles_vars, mapper_vars,
      lots_vars, endpoint_vars>>

vars ==
    <<broker_vars, res, rl_vars, callers_vars, factory_vars, adapter_vars,
      candles_vars, mapper_vars, lots_vars, endpoint_vars, quote_vars>>

\* The paper broker, beside a limiter that nobody calls
\* The machines that a specification does not run stay as they start
NoCandles ==
    /\ series = CsvFrame(RawRows)
    /\ ohlcv = [op |-> "load", timeframe |-> "1m", since |-> 0, limit |-> 0,
                from |-> "1m", candles |-> series]

Idle ==
    /\ RateLimiterInit(Unlimited)
    /\ CallersInit
    /\ FactoryInit
    /\ AdapterInit
    /\ NoCandles
    /\ MapperInit
    /\ LotsInit
    /\ EndpointInit
    /\ QuotesInit

Init == PaperbrokerInit /\ Idle

Next ==
    \/ \E pair \in Pairs, ordertype \in OrderTypes, side \in Sides, amount \in Amounts :
         \E rate \in IF ordertype = "market" THEN {0} ELSE Rates :
            CreateOrder(pair, ordertype, side, amount, rate) /\ UNCHANGED beside_broker
    \/ \E order_id \in 1..MaxOrders : FetchOrder(order_id) /\ UNCHANGED beside_broker
    \/ \E order_id \in 1..MaxOrders : CancelOrder(order_id) /\ UNCHANGED beside_broker
    \/ \E pair \in Pairs : FetchTicker(pair) /\ UNCHANGED beside_broker
    \/ \E pair \in Pairs : FetchOrderBook(pair) /\ UNCHANGED beside_broker
    \/ \E pair \in Pairs, timeframe \in Timeframes, since \in Sinces, limit \in Limits :
         FetchOhlcv(pair, timeframe, since, limit) /\ UNCHANGED beside_broker
    \/ \E open_trades \in TradeDatabases :
         FetchBalance(open_trades) /\ UNCHANGED beside_broker
    \/ \E files \in FilesKept : Reset(files) /\ UNCHANGED beside_broker
    \/ \E files \in FilesKept : ClearCache(files) /\ UNCHANGED beside_broker

Spec == Init /\ [][Next]_vars

\* The paper broker in a run where the files of user_data/raw_data may go: it
\* is asked for market orders and tickers of two pairs and for the balance, and
\* it is reset and its cache cleared
ReloadPairs == {"RELIANCE/INR", "NIFTY24500CE"}

InitReload == Init

NextReload ==
    \/ \E pair \in ReloadPairs, side \in Sides, amount \in Amounts :
         CreateOrder(pair, "market", side, amount, 0) /\ UNCHANGED beside_broker
    \/ \E pair \in ReloadPairs : FetchTicker(pair) /\ UNCHANGED beside_broker
    \/ \E open_trades \in TradeDatabases :
         FetchBalance(open_trades) /\ UNCHANGED beside_broker
    \/ \E files \in RawDataFiles : Reset(files) /\ UNCHANGED beside_broker
    \/ \E files \in RawDataFiles : ClearCache(files) /\ UNCHANGED beside_broker

SpecReload == InitReload /\ [][NextReload]_vars

\* One RateLimiter called by several threads, beside a broker that nobody calls
InitRL ==
    /\ PaperbrokerInit /\ CallersInit /\ FactoryInit /\ AdapterInit /\ NoCandles
    /\ QuotesInit
    /\ EndpointInit
    /\ LotsInit
    /\ MapperInit
    /\ \E cfg \in RLConfigs : RateLimiterInit(cfg)

NextRL ==
    \/ \E th \in Threads, gap \in Gaps :
         WaitIfNeeded(th, gap) /\ UNCHANGED beside_limiter
    \/ \E th \in Threads, oversleep \in Oversleeps :
         WakeUp(th, oversleep) /\ UNCHANGED beside_limiter
    \/ \E th \in Threads : RecordAndReturn(th) /\ UNCHANGED beside_limiter
    \/ ResetLimiter /\ UNCHANGED beside_limiter

SpecRL == InitRL /\ [][NextRL]_vars

\* The orders of the first thread: orders of ten units on a pair with
\* CSV data and on an option pair
CallerPairs == {"RELIANCE/INR", "NIFTY25DEC24500CE/INR"}

CallerOrderTypes == {"market", "limit"}

CallerAmounts == {10}


\* The reading thread that runs beside the orders
OrderReaders == {1}

\* The paper broker called by two threads at once: one places orders, the other
\* reads the balance and the positions
InitCallers == PaperbrokerInit /\ Idle

NextCallers ==
    \/ \E pair \in CallerPairs, ordertype \in CallerOrderTypes, side \in Sides,
          amount \in CallerAmounts :
         \E rate \in IF ordertype = "market" THEN {0} ELSE Rates :
            BeginCreateOrder(pair, ordertype, side, amount, rate)
               /\ UNCHANGED beside_callers
    \/ FillBalance /\ UNCHANGED beside_callers
    \/ FillPosition /\ UNCHANGED beside_callers
    \/ FillAmount /\ UNCHANGED beside_callers
    \/ FillCost /\ UNCHANGED beside_callers
    \/ FillLog /\ UNCHANGED beside_callers
    \/ \E th \in OrderReaders : BeginFetchBalance(th) /\ UNCHANGED beside_callers
    \/ \E th \in OrderReaders, open_trades \in TradeDatabases :
         get_open_trades(th, open_trades) /\ UNCHANGED beside_callers
    \/ \E th \in OrderReaders : RestoreInsert(th) /\ UNCHANGED beside_callers
    \/ \E th \in OrderReaders : RestoreAmount(th) /\ UNCHANGED beside_callers
    \/ \E th \in OrderReaders : RestoreCostLoad(th) /\ UNCHANGED beside_callers
    \/ \E th \in OrderReaders : RestoreCost(th) /\ UNCHANGED beside_callers
    \/ \E th \in OrderReaders : RestoreSum(th) /\ UNCHANGED beside_callers
    \/ \E th \in OrderReaders : RestoreSumNext(th) /\ UNCHANGED beside_callers
    \/ \E th \in OrderReaders : RestoreUsed(th) /\ UNCHANGED beside_callers
    \/ \E th \in OrderReaders : RestoreFree(th) /\ UNCHANGED beside_callers
    \/ \E th \in OrderReaders : SetRestored(th) /\ UNCHANGED beside_callers
    \/ \E th \in OrderReaders : ReadFree(th) /\ UNCHANGED beside_callers
    \/ \E th \in OrderReaders : StartLoop(th) /\ UNCHANGED beside_callers
    \/ \E th \in OrderReaders : LoopNext(th) /\ UNCHANGED beside_callers
    \/ ReadPositions /\ UNCHANGED beside_callers

SpecCallers == InitCallers /\ [][NextCallers]_vars

\* Bound of the model: the orders placed while several threads read
MaxRestoreOrders == 1

\* The same with several threads in fetch_balance, whose first calls overlap,
\* beside a thread that places market orders on the pair of the open trade
InitRestore == PaperbrokerInit /\ Idle

NextRestore ==
    \/ \E side \in Sides, amount \in CallerAmounts :
         /\ Len(orders) < MaxRestoreOrders
         /\ BeginCreateOrder("RELIANCE/INR", "market", side, amount, 0)
         /\ UNCHANGED beside_callers
    \/ FillBalance /\ UNCHANGED beside_callers
    \/ FillPosition /\ UNCHANGED beside_callers
    \/ FillAmount /\ UNCHANGED beside_callers
    \/ FillCost /\ UNCHANGED beside_callers
    \/ FillLog /\ UNCHANGED beside_callers
    \/ \E th \in Readers : BeginFetchBalance(th) /\ UNCHANGED beside_callers
    \/ \E th \in Readers, open_trades \in TradeDatabases :
         get_open_trades(th, open_trades) /\ UNCHANGED beside_callers
    \/ \E th \in Readers : RestoreInsert(th) /\ UNCHANGED beside_callers
    \/ \E th \in Readers : RestoreAmount(th) /\ UNCHANGED beside_callers
    \/ \E th \in Readers : RestoreCostLoad(th) /\ UNCHANGED beside_callers
    \/ \E th \in Readers : RestoreCost(th) /\ UNCHANGED beside_callers
    \/ \E th \in Readers : RestoreSum(th) /\ UNCHANGED beside_callers
    \/ \E th \in Readers : RestoreSumNext(th) /\ UNCHANGED beside_callers
    \/ \E th \in Readers : RestoreUsed(th) /\ UNCHANGED beside_callers
    \/ \E th \in Readers : RestoreFree(th) /\ UNCHANGED beside_callers
    \/ \E th \in Readers : SetRestored(th) /\ UNCHANGED beside_callers
    \/ \E th \in Readers : ReadFree(th) /\ UNCHANGED beside_callers
    \/ \E th \in Readers : StartLoop(th) /\ UNCHANGED beside_callers
    \/ \E th \in Readers : LoopNext(th) /\ UNCHANGED beside_callers

SpecRestore == InitRestore /\ [][NextRestore]_vars

\* The exchange factory after the import of freqtrade.exchange
InitFactory == PaperbrokerInit /\ Idle

NextFactory ==
    \/ \E name \in RegisteredNames, exchange_class \in AdapterClasses :
         register_custom_exchange(name, exchange_class) /\ UNCHANGED beside_factory
    \/ \E name \in VenueNames, env \in FactoryEnvironments :
         create_exchange(name, env.cfg, env.installed, env.totp_returns, env.login)
            /\ UNCHANGED beside_factory
    \/ \E name \in VenueNames : IsCustomExchange(name) /\ UNCHANGED beside_factory
    \/ list_available_exchanges /\ UNCHANGED beside_factory

SpecFactory == InitFactory /\ [][NextFactory]_vars

\* The broker adapters: they are constructed, and a constructed Openalgo
\* adapter is called
InitAdapters == PaperbrokerInit /\ Idle

NextAdapters ==
    \/ \E cfg \in Credentials, installed \in BOOLEAN, totp_returns \in BOOLEAN,
          login \in LoginReplies :
         NewSmartapi(cfg, installed, totp_returns, login) /\ UNCHANGED beside_adapters
    \/ \E cfg \in Credentials, host \in Hosts :
         NewOpenalgo(cfg, host) /\ UNCHANGED beside_adapters
    \/ \E cfg \in Credentials : NewZerodha(cfg) /\ UNCHANGED beside_adapters
    \/ \E operation \in OpenalgoOperations :
         OpenalgoCall(operation) /\ UNCHANGED beside_adapters
    \/ _rate_limit /\ UNCHANGED beside_adapters
    \/ \E reply \in BackendReplies : OpenalgoRequest(reply) /\ UNCHANGED beside_adapters

SpecAdapters == InitAdapters /\ [][NextAdapters]_vars

\* The candle functions of the paper broker applied to a 1-minute series
InitCandles ==
    /\ PaperbrokerInit
    /\ RateLimiterInit(Unlimited)
    /\ CallersInit
    /\ FactoryInit
    /\ AdapterInit
    /\ MapperInit
    /\ LotsInit
    /\ EndpointInit
    /\ QuotesInit
    /\ CandlesInit

NextCandles ==
    \/ \E timeframe \in FetchTimeframes, since \in FetchSinces, limit \in FetchLimits :
         CsvFetchOhlcv(timeframe, since, limit) /\ UNCHANGED beside_candles
    \/ \E timeframe \in ResampleTimeframes :
         ResampleSeries(timeframe) /\ UNCHANGED beside_candles
    \/ \E timeframe \in ResampleTimeframes :
         ResampleAgain(timeframe) /\ UNCHANGED beside_candles

SpecCandles == InitCandles /\ [][NextCandles]_vars

\* SymbolMapper instances of one process
InitMapper == PaperbrokerInit /\ Idle

NextMapper ==
    \/ \E i \in MapperIds, config_path \in ConfigPaths :
         NewSymbolMapper(i, config_path) /\ UNCHANGED beside_mapper
    \/ \E i \in MapperIds, config_path \in ConfigPaths \ {""} :
         LoadMappings(i, config_path) /\ UNCHANGED beside_mapper
    \/ \E i \in MapperIds, freqtrade_symbol \in MappedSymbols, broker \in MappedBrokers,
          mapping \in BrokerMappings :
         add_mapping(i, freqtrade_symbol, broker, mapping) /\ UNCHANGED beside_mapper
    \/ \E i \in MapperIds, pair \in TranslatedPairs, broker \in ReverseBrokers :
         ToBrokerFormat(i, pair, broker) /\ UNCHANGED beside_mapper
    \/ \E i \in MapperIds, broker \in ReverseBrokers, symbol \in TranslatedSymbols :
         FromBrokerFormat(i, broker, symbol) /\ UNCHANGED beside_mapper

SpecMapper == InitMapper /\ [][NextMapper]_vars

\* Lot-size lookups of option symbols
InitLots == PaperbrokerInit /\ Idle

NextLots ==
    \E underlying \in Underlyings, expiry \in ExpiryTokens, strike \in Strikes,
       suffix \in OptionSuffixes, quote \in Quotes :
        GetLotSize(underlying, expiry, strike, suffix, quote) /\ UNCHANGED beside_lots

SpecLots == InitLots /\ [][NextLots]_vars

\* An EndpointRateLimiter and its default RateLimiter, called by several threads
InitEndpoint == PaperbrokerInit /\ Idle

NextEndpoint ==
    \/ \E th \in Threads, op \in EndpointCalls, endpoint \in Endpoints,
          policy \in EndpointPolicies :
         BeginCall(th, op, endpoint, policy) /\ UNCHANGED beside_endpoint
    \/ \E th \in Threads, gap \in EndpointGaps :
         EnterLimiter(th, gap) /\ UNCHANGED beside_endpoint
    \/ \E th \in Threads : WakeLimiter(th) /\ UNCHANGED beside_endpoint
    \/ \E th \in Threads : RecordLimiter(th) /\ UNCHANGED beside_endpoint
    \/ \E th \in Threads : LookupEndpoint(th) /\ UNCHANGED beside_endpoint
    \/ \E th \in Threads : add_endpoint_limit(th) /\ UNCHANGED beside_endpoint
    \/ \E th \in Threads : get_stats(th) /\ UNCHANGED beside_endpoint
    \/ \E th \in Threads : limiter_get_stats(th) /\ UNCHANGED beside_endpoint
    \/ \E th \in Threads : endpoint_get_stats(th) /\ UNCHANGED beside_endpoint
    \/ \E th \in Threads : limiter_reset(th) /\ UNCHANGED beside_endpoint

SpecEndpoint == InitEndpoint /\ [][NextEndpoint]_vars

\* The same with fair locks: a thread that stands before a lock that is free
\* again and again gets it, and a thread that holds a lock goes on.  The calls
\* come in immediate succession, for one endpoint and with one policy, and they
\* are calls of wait_if_needed, add_endpoint_limit and get_stats.
FairEndpoints == {"", "quotes"}

FairCalls == EndpointCalls \ {"default.reset"}

FairPolicies == { [Unlimited EXCEPT !.requests_per_second = 1] }

FairGaps == {0}

NextEndpointFair ==
    \/ \E th \in Threads, op \in FairCalls, endpoint \in FairEndpoints,
          policy \in FairPolicies :
         BeginCall(th, op, endpoint, policy) /\ UNCHANGED beside_endpoint
    \/ \E th \in Threads, gap \in FairGaps :
         EnterLimiter(th, gap) /\ UNCHANGED beside_endpoint
    \/ \E th \in Threads : WakeLimiter(th) /\ UNCHANGED beside_endpoint
    \/ \E th \in Threads : RecordLimiter(th) /\ UNCHANGED beside_endpoint
    \/ \E th \in Threads : LookupEndpoint(th) /\ UNCHANGED beside_endpoint
    \/ \E th \in Threads : add_endpoint_limit(th) /\ UNCHANGED beside_endpoint
    \/ \E th \in Threads : get_stats(th) /\ UNCHANGED beside_endpoint
    \/ \E th \in Threads : limiter_get_stats(th) /\ UNCHANGED beside_endpoint
    \/ \E th \in Threads : endpoint_get_stats(th) /\ UNCHANGED beside_endpoint

EndpointFairness ==
    \A th \in Threads :
        /\ SF_vars((\E gap \in FairGaps : EnterLimiter(th, gap))
                      /\ UNCHANGED beside_endpoint)
        /\ SF_vars(LookupEndpoint(th) /\ UNCHANGED beside_endpoint)
        /\ SF_vars(add_endpoint_limit(th) /\ UNCHANGED beside_endpoint)
        /\ SF_vars(get_stats(th) /\ UNCHANGED beside_endpoint)
        /\ SF_vars(limiter_get_stats(th) /\ UNCHANGED beside_endpoint)
        /\ WF_vars(endpoint_get_stats(th) /\ UNCHANGED beside_endpoint)
        /\ WF_vars(WakeLimiter(th) /\ UNCHANGED beside_endpoint)
        /\ WF_vars(RecordLimiter(th) /\ UNCHANGED beside_endpoint)

SpecEndpointFair == InitEndpoint /\ [][NextEndpointFair]_vars /\ EndpointFairness

\* The paper broker with the history of the prices it quotes
InitQuotes == Init

NextQuotes ==
    \/ \E pair \in Pairs, ordertype \in OrderTypes, side \in Sides, amount \in Amounts :
         \E rate \in IF ordertype = "market" THEN {0} ELSE Rates :
            /\ CreateOrder(pair, ordertype, side, amount, rate)
            /\ RecordQuote /\ UNCHANGED beside_quotes
    \/ \E pair \in Pairs : FetchTicker(pair) /\ RecordQuote /\ UNCHANGED beside_quotes
    \/ \E pair \in Pairs :
         FetchOrderBook(pair) /\ RecordQuote /\ UNCHANGED beside_quotes
    \/ \E pair \in Pairs, timeframe \in Timeframes, since \in Sinces, limit \in Limits :
         /\ FetchOhlcv(pair, timeframe, since, limit)
         /\ RecordQuote /\ UNCHANGED beside_quotes

SpecQuotes == InitQuotes /\ [][NextQuotes]_vars

(***************************************************************************)
(* Properties of the paper broker                                          *)
(***************************************************************************)
\* C1: after every operation the INR balance satisfies free + used = total
C1_BalanceInvariant == balance.free + balance.used = balance.total

\* C2: when candle data is loaded for a pair, every fetch_ticker for that pair
\* returns as last the close of the last candle of the loaded series
C2_TickerIsLastClose ==
    (/\ res.op = "fetch_ticker"
     /\ res.pair \in DOMAIN csv_data
     /\ Len(csv_data[res.pair]) > 0)
    => res.price = csv_data[res.pair][Len(csv_data[res.pair])].close

\* a ticker of a pair with candle data, asked for after two orders were placed
C2_Witness ==
    /\ res.op = "fetch_ticker"
    /\ res.pair = "RELIANCE/INR"
    /\ res.price = INR(100)
    /\ Len(orders) = 2

\* every stored order is filled at once, and none is open
AllOrdersFilled ==
    /\ \A i \in DOMAIN orders :
          /\ orders[i].status = "closed"
          /\ orders[i].filled = orders[i].amount
          /\ orders[i].remaining = 0
    /\ open_orders = {}

\* C3: every order create_order returns, market or limit, is already filled
\* (status closed, filled = amount, remaining = 0); in every reachable state no
\* stored order is open and the open-order set is empty; and no later operation
\* changes the status of a stored order
C3_InstantFill ==
    /\ []AllOrdersFilled
    /\ [][\A i \in DOMAIN orders :
             i \in DOMAIN orders' => orders'[i].status = orders[i].status]_vars

\* a limit order and a market order are stored, and a cancel of the limit order
\* has been attempted
C3_Witness ==
    /\ Len(orders) = 2
    /\ orders[1].type = "limit"
    /\ orders[2].type = "market"
    /\ res.op = "cancel_order"
    /\ res.id = 1

\* C4: a limit buy order created below the current market price can be fetched by
\* its id and then cancelled: fetch_order returns the order with the same id, and
\* cancel_order succeeds and returns the order with status 'canceled'
C4_LimitBuyFetchThenCancel ==
    [][\A id \in DOMAIN orders :
          (/\ orders[id].type = "limit"
           /\ orders[id].side = "buy"
           /\ orders[id].symbol \in DOMAIN price_cache
           /\ orders[id].price < price_cache[orders[id].symbol])
          => /\ (res'.op = "fetch_order" /\ res'.id = id) => res'.outcome = "ok"
             /\ (res'.op = "cancel_order" /\ res'.id = id)
                   => /\ res'.outcome = "ok"
                      /\ orders'[id].status = "canceled"]_vars

\* What the pairs of the whitelist denote by the NSE naming the claims go by
\* (an option symbol is underlying, expiry, strike, CE or PE): the kind of
\* instrument and the underlying.  This is the reference the claims are stated
\* against; what the code makes of a pair is PairInstrumentType and PairLotSize
Instrument(pair) ==
    CASE pair = "RELIANCE/INR" ->
            [kind |-> "EQUITY", underlying |-> <<"R","E","L","I","A","N","C","E">>]
      [] pair = "NIFTY24500CE" ->
            [kind |-> "CALL_OPTION", underlying |-> <<"N","I","F","T","Y">>]
      [] pair = "NIFTY25DEC24500CE/INR" ->
            [kind |-> "CALL_OPTION", underlying |-> <<"N","I","F","T","Y">>]

\* the lot size the default tables configure for the underlying of each pair
InstrumentLotSize ==
    [pair \in Pairs |->
        LET table == default_indices \cup default_stocks
            underlying == Instrument(pair).underlying
        IN  IF InTable(table, underlying) THEN Lookup(table, underlying) ELSE 1]

\* C5: a rejected create_order has no effect on the ledgers.  A buy whose notional
\* plus commission exceeds the free balance fails with InsufficientFunds, a
\* derivative order whose amount comes to zero whole lots of its instrument
\* fails with InvalidOrder, and in both cases no order is stored and the
\* balance, the positions and the trade history are as before the call
C5_RejectedOrderHasNoEffect ==
    [][res'.op = "create_order" =>
        LET lot_size    == InstrumentLotSize[res'.pair]
            derivative  == is_derivative(Instrument(res'.pair).kind)
            lots        == IF derivative THEN res'.amount \div lot_size ELSE 1
            amt         == IF derivative THEN lots * lot_size ELSE res'.amount
            slippage    == Pct(res'.price, config.slippage_bp)
            price       == IF res'.ordertype = "market"
                           THEN res'.price + slippage
                           ELSE IF res'.rate # 0 THEN res'.rate ELSE res'.price
            notional    == price * amt
            commission  == Pct(notional, config.commission_bp)
        IN  /\ lots = 0 => res'.outcome = "InvalidOrder"
            /\ (lots # 0 /\ res'.side = "buy" /\ notional + commission > balance.free)
                  => res'.outcome = "InsufficientFunds"
            /\ res'.outcome \in {"InvalidOrder", "InsufficientFunds"}
                  => /\ orders' = orders
                     /\ open_orders' = open_orders
                     /\ filled_orders' = filled_orders
                     /\ balance' = balance
                     /\ positions' = positions
                     /\ trade_history' = trade_history]_vars

\* C6: a fill executes at the current price raised (buy) or lowered (sell) by the
\* slippage for a market order, at the requested price (else the current price) for
\* a limit order; commission = execution price x amount x commission rate; a buy
\* lowers free by notional + commission and raises the position's amount by the
\* amount and its cost by the notional; a sell raises free by notional - commission
\* and lowers the position's amount by the amount
C6_FillArithmetic ==
    [][(/\ res'.op = "create_order"
        /\ res'.outcome = "ok"
        /\ Len(orders') = Len(orders) + 1) =>
        LET o          == orders'[Len(orders')]
            slippage   == Pct(res'.price, config.slippage_bp)
            price      == IF o.type = "market"
                          THEN IF o.side = "buy" THEN res'.price + slippage
                                                 ELSE res'.price - slippage
                          ELSE IF res'.rate # 0 THEN res'.rate ELSE res'.price
            notional   == price * o.amount
            commission == Pct(notional, config.commission_bp)
            before     == Get(positions, o.symbol, [amount |-> 0, cost |-> 0])
            after      == Get(positions', o.symbol, [amount |-> 0, cost |-> 0])
        IN  /\ o.price = price
            /\ o.fee = commission
            /\ o.status = "closed"
            /\ o.filled = o.amount
            /\ o.side = "buy" =>
                  /\ balance'.free = balance.free - (notional + commission)
                  /\ after.amount = before.amount + o.amount
                  /\ after.cost = before.cost + notional
            /\ o.side = "sell" =>
                  /\ balance'.free = balance.free + (notional - commission)
                  /\ after.amount = before.amount - o.amount]_vars

\* C7: for a spot pair (an equity) the position amount is never negative
C7_SpotPositionNeverNegative ==
    \A pair \in DOMAIN positions :
        Instrument(pair).kind = "EQUITY" => positions[pair].amount >= 0

\* C8: after reset() the engine is in its starting state: the balance is the
\* initial balance and the order ledger, the filled- and open-order ledgers, the
\* positions and the trade history are empty
C8_ResetRestoresStart ==
    res.op = "reset" =>
        /\ balance = InitialBalance(config)
        /\ orders = <<>>
        /\ open_orders = {}
        /\ filled_orders = {}
        /\ positions = EmptyMap
        /\ trade_history = <<>>

\* C9: the amount of the order create_order returns is, for a derivative, the
\* largest multiple of the instrument's lot size that does not exceed the
\* requested amount, and for a non-derivative the requested amount
C9_LotNormalization ==
    (res.op = "create_order" /\ res.outcome = "ok") =>
        orders[res.id].amount =
            IF is_derivative(Instrument(res.pair).kind)
            THEN (res.amount \div InstrumentLotSize[res.pair]) * InstrumentLotSize[res.pair]
            ELSE res.amount

(***************************************************************************)
(* Properties of the rate limiter                                          *)
(***************************************************************************)
\* the windows a policy configures: <<limit, period>>
ConfiguredWindows(cfg) ==
    { w \in { <<cfg.requests_per_second, SecondPeriod>>,
              <<cfg.requests_per_minute, MinutePeriod>>,
              <<cfg.requests_per_hour, HourPeriod>>,
              <<cfg.requests_per_day, DayPeriod>> } : w[1] # 0 }

\* C10: for every configured window, no time interval of the window's length
\* holds more recorded request timestamps than the window's limit (an interval
\* that holds the most timestamps can be taken to start at one of them).  The
\* claim is about sequences of wait_if_needed calls: no reset() was called
C10_WindowLimit ==
    resets = 0 =>
        \A w \in ConfiguredWindows(rl_config) :
            \A i \in DOMAIN recorded :
                Cardinality({k \in DOMAIN recorded :
                                /\ recorded[i] <= recorded[k]
                                /\ recorded[k] <= recorded[i] + w[2]}) <= w[1]

\* the second and the minute window have both made calls wait, and more requests
\* are recorded than either limit allows in one window
C10_Witness ==
    /\ rl_config.requests_per_second = 2
    /\ rl_config.requests_per_minute = 3
    /\ resets = 0
    /\ Len(recorded) >= 4
    /\ rate_limit_hits >= 2
    /\ recorded[4] - recorded[1] > MinutePeriod
    /\ pc = [th \in Threads |-> "idle"]

(***************************************************************************)
(* C11: five calls in immediate succession under 3 requests per second     *)
(***************************************************************************)

\* The policy of 3 requests per second and no other limit
ThreePerSecond == [Unlimited EXCEPT !.requests_per_second = 3]

\* Five calls were made and recorded, each one issued at the moment the one
\* before it was recorded
FiveInImmediateSuccession ==
    /\ rl_config = ThreePerSecond
    /\ resets = 0
    /\ Len(calls) = 5
    /\ Len(recorded) = 5
    /\ calls[1].at = StartTime
    /\ \A k \in 1..4 : calls[k + 1].at = recorded[k]

\* C11: with 3 requests per second and no other limit, when 5 wait_if_needed
\* calls are issued in immediate succession, the 4th call and the 5th call each
\* wait at least a third of a second before being recorded
C11_FourthAndFifthWait ==
    FiveInImmediateSuccession =>
        /\ 3 * calls[4].wait >= SecondPeriod
        /\ 3 * (recorded[4] - calls[4].at) >= SecondPeriod
        /\ 3 * calls[5].wait >= SecondPeriod
        /\ 3 * (recorded[5] - calls[5].at) >= SecondPeriod

(***************************************************************************)
(* C12: check-then-record is one critical section                          *)
(***************************************************************************)

\* Thread th has evaluated the limits and has not recorded its timestamp yet
InFlight(th) == pc[th] # "idle"

\* C12: between one call's evaluation of the limits and the recording of its
\* timestamp no other call evaluates the limits or records a timestamp: while a
\* thread is in flight no call is added, and the only timestamp recorded is
\* that thread's own, which ends its call
C12_CriticalSection ==
    [][\A th \in Threads :
          InFlight(th) =>
              /\ calls' = calls
              /\ recorded' # recorded =>
                    /\ ~InFlight(th)'
                    /\ Len(recorded') = Len(recorded) + 1
                    /\ \A other \in Threads \ {th} : pc'[other] = pc[other]]_vars

\* A thread that found a limit reached is asleep holding the lock, after calls
\* of both threads were recorded, while the other thread is ready to call
C12_Witness ==
    \E th \in Threads :
        /\ pc[th] = "sleeping"
        /\ lock = th
        /\ Len(recorded) = Len(calls) - 1
        /\ Len(calls) < MaxRequests
        /\ \E k \in 1..Len(calls) : calls[k].thread # th
        /\ \A other \in Threads \ {th} : pc[other] = "idle"

(***************************************************************************)
(* C13: a fill is atomic for a concurrent reader                           *)
(***************************************************************************)

\* what fetch_balance shows of a ledger: the free balance and the amounts of the
\* positions held
BalanceView(ledger) ==
    [free |-> ledger.free,
     held |-> [p \in {q \in DOMAIN ledger.positions : ledger.positions[q].amount > 0}
                 |-> ledger.positions[p].amount]]

\* C13: while one thread runs a fill, a balance or position read by another
\* thread never observes a partly applied fill: what fetch_balance returns is
\* the balance and positions from before the fill or those from after it, and
\* so are the positions that get_positions returns (a fill during which the
\* first fetch_balance restored positions from the trade database is left out:
\* there the ledgers change by more than the fill)
C13_FillAtomicForReaders ==
    /\ (seen.op = "fetch_balance" /\ seen.outcome = "ok" /\ ~seen.restored) =>
          BalanceView(seen) \in {BalanceView(seen.before), BalanceView(seen.after)}
    /\ (seen.op = "get_positions" /\ ~seen.restored) =>
          seen.positions \in {seen.before.positions, seen.after.positions}

(***************************************************************************)
(* C14: an unknown venue                                                   *)
(***************************************************************************)

\* The error kinds that are fatal configuration errors
ConfigurationErrors == {"OperationalException"}

\* C14: create_exchange for a venue name that is neither a registered custom
\* adapter nor an exchange of the generic library fails with a configuration
\* error that lists the known custom adapters, and returns no adapter
C14_UnknownVenueFails ==
    (/\ fres.op = "create_exchange"
     /\ fres.name # <<>>
     /\ ~DictHas(CUSTOM_EXCHANGES, Lower(fres.name))
     /\ Lower(fres.name) \notin ccxt_exchanges)
    => /\ fres.outcome = "raised"
       /\ fres.error \in ConfigurationErrors
       /\ fres.message = "is not supported"
       /\ fres.listed = DictKeys(CUSTOM_EXCHANGES)
       /\ Len(fres.listed) >= Len(StartupRegistrations)

(***************************************************************************)
(* C15: the registry resolves names without regard to case                 *)
(***************************************************************************)

\* The name was given to some register_custom_exchange call, whatever the case
EverRegistered(name) ==
    \E i \in 1..Len(registrations) : Lower(registrations[i].name) = Lower(name)

\* The class of the latest registration under the name, whatever the case
LatestRegistered(name) ==
    LET last == CHOOSE i \in 1..Len(registrations) :
                  /\ Lower(registrations[i].name) = Lower(name)
                  /\ \A j \in (i + 1)..Len(registrations) :
                        Lower(registrations[j].name) # Lower(name)
    IN  registrations[last].class

\* C15: after any sequence of registrations, create_exchange resolves a venue
\* name, whatever its letter case, to the class most recently registered under
\* it, before any exchange of the generic library with that name (that class is
\* the one it calls: the adapter is returned unless the constructor raises); and every
\* registered name is among list_available_exchanges()['custom'] and is a custom
\* exchange for is_custom_exchange
C15_RegistryResolution ==
    /\ (fres.op = "create_exchange" /\ EverRegistered(fres.name)) =>
          /\ fres.class = LatestRegistered(fres.name)
          /\ fres.outcome = "adapter" \/ fres.raised_in = "constructor"
    /\ fres.op = "list_available_exchanges" =>
          \A i \in 1..Len(registrations) : Lower(registrations[i].name) \in fres.custom
    /\ (fres.op = "is_custom_exchange" /\ EverRegistered(fres.name)) => fres.value

\* create_exchange was asked, in another letter case, for a name that was
\* registered more than once and that the generic library knows as well
C15_Witness ==
    /\ fres.op = "create_exchange"
    /\ fres.outcome = "adapter"
    /\ Lower(fres.name) \in ccxt_exchanges
    /\ \E i, j \in 1..Len(registrations) :
          /\ i < j
          /\ Lower(registrations[i].name) = Lower(fres.name)
          /\ Lower(registrations[j].name) = Lower(fres.name)
          /\ registrations[i].class # registrations[j].class
          /\ registrations[j].name # fres.name
          /\ registrations[j].name # Lower(registrations[j].name)

(***************************************************************************)
(* C16: configuration errors come before network calls                     *)
(***************************************************************************)

\* The credentials each adapter class needs
CredentialsMissing(class, cfg) ==
    CASE class = "Openalgo" -> ~cfg.key
      [] class = "Smartapi" ->
            ~(cfg.key /\ cfg.username /\ cfg.password /\ cfg.totp_token)
      [] class = "Zerodha"  -> ~(cfg.key /\ cfg.password)
      [] OTHER -> FALSE

\* C16: constructing a broker adapter (OpenAlgo, SmartAPI, Zerodha) with missing
\* credentials raises a fatal configuration error, and no network call is made
\* before that error is raised
C16_ConfigErrorBeforeNetwork ==
    (ares.op = "construct" /\ CredentialsMissing(ares.class, ares.cfg)) =>
        /\ ares.outcome = "raised"
        /\ ares.error \in ConfigurationErrors
        /\ ares.calls = <<>>

(***************************************************************************)
(* C17: OpenAlgo failures reach the caller as typed errors                 *)
(***************************************************************************)

\* The typed error that matches a backend failure
MatchingError(reply) ==
    IF reply.kind = "http" /\ reply.status = 429 THEN "DDosProtection"
    ELSE IF reply.kind = "connection" \/ (reply.kind = "http" /\ reply.status >= 500)
    THEN "TemporaryError"
    ELSE "ExchangeError"

\* C17: every backend failure of an OpenAlgo adapter operation reaches the
\* caller as the typed error matching the failure: an upstream 429 as
\* DDosProtection, an upstream 5xx or connection failure as TemporaryError,
\* anything else as ExchangeError; no failure is replaced by a normally
\* returned default value
C17_TypedErrorsReachCaller ==
    (/\ ares.op \in OpenalgoOperations
     /\ ares.reply.kind # "ok"
     /\ ares.reply.text # "insufficient")
    => /\ ares.outcome = "raised"
       /\ ares.error = MatchingError(ares.reply)

(***************************************************************************)
(* C18: fetch_ohlcv returns the most recent N candles                      *)
(***************************************************************************)

\* The length of a timeframe in minutes
TimeframeMinutes(timeframe) ==
    CASE timeframe = "1m"  -> 1
      [] timeframe = "3m"  -> 3
      [] timeframe = "5m"  -> 5
      [] timeframe = "10m" -> 10
      [] timeframe = "15m" -> 15
      [] timeframe = "2h"  -> 120

\* The candles of a resolution that a 1-minute series makes up: one for every
\* epoch-aligned span of that many minutes that holds a 1-minute candle
CandlesOfResolution(df, minutes) ==
    LET width    == minutes * 60000
        starts   == SortedSeq({(df[i].timestamp \div width) * width : i \in 1..Len(df)})
        In(b)    == {i \in 1..Len(df) : df[i].timestamp >= b /\ df[i].timestamp < b + width}
    IN  [k \in 1..Len(starts) |->
            LET inside == In(starts[k]) IN
            [timestamp |-> starts[k],
             open      |-> df[MinOf(inside)].open,
             high      |-> MaxOf({df[i].high : i \in inside}),
             low       |-> MinOf({df[i].low : i \in inside}),
             close     |-> df[MaxOf(inside)].close,
             volume    |-> SumVolume([j \in 1..Cardinality(inside) |->
                                        df[MinOf(inside) + j - 1]])]]

\* C18: with historical data loaded and no since-timestamp, fetch_ohlcv(pair,
\* timeframe, limit=N) returns the most recent N candles of the requested
\* resolution (all of them when there are fewer), in ascending time order
C18_MostRecentCandles ==
    (ohlcv.op = "fetch_ohlcv" /\ ohlcv.since = 0) =>
        ohlcv.candles =
            LastRows(CandlesOfResolution(series, TimeframeMinutes(ohlcv.timeframe)),
                     IF ohlcv.limit # 0 THEN ohlcv.limit ELSE 100)

(***************************************************************************)
(* C19: 5-minute candles equal the end of the resampled series             *)
(***************************************************************************)

\* C19: with a loaded 1-minute series and no since-timestamp, a request for
\* 5-minute candles returns the last candles of the whole series resampled to
\* 5 minutes; the final candle closes at the close of the last 1-minute candle
\* and opens at the open of the first 1-minute candle of its 5-minute bucket
C19_FiveMinuteCandlesMatchSeries ==
    (ohlcv.op = "fetch_ohlcv" /\ ohlcv.since = 0 /\ ohlcv.timeframe = "5m") =>
        LET whole  == _resample_candles(series, "5m")
            n      == Len(ohlcv.candles)
            final  == ohlcv.candles[n]
            bucket == (series[Len(series)].timestamp \div 300000) * 300000
            first  == MinOf({i \in 1..Len(series) : series[i].timestamp >= bucket})
        IN  /\ n >= 1
            /\ n <= Len(whole)
            /\ ohlcv.candles = LastRows(whole, n)
            /\ final.close = series[Len(series)].close
            /\ final.open = series[first].open

(***************************************************************************)
(* C20: resampling is idempotent and associative                           *)
(***************************************************************************)

\* C20: resampling a 1-minute series to 1 minute returns the series unchanged,
\* and resampling to N minutes and then resampling those candles to M minutes,
\* N dividing M, gives the same candles as resampling the 1-minute series
\* directly to M minutes
C20_ResampleIdempotentAssociative ==
    /\ (ohlcv.op = "resample" /\ ohlcv.timeframe = "1m") => ohlcv.candles = series
    /\ (/\ ohlcv.op = "resample again"
        /\ TimeframeMinutes(ohlcv.timeframe) % TimeframeMinutes(ohlcv.from) = 0)
       => /\ ohlcv.candles = _resample_candles(series, ohlcv.timeframe)
          /\ ohlcv.candles =
                CandlesOfResolution(series, TimeframeMinutes(ohlcv.timeframe))

\* 5-minute candles were resampled to 15 minutes, from a series with a hole that
\* runs over several buckets
C20_Witness ==
    /\ ohlcv.op = "resample again"
    /\ ohlcv.from = "5m"
    /\ ohlcv.timeframe = "15m"
    /\ Len(ohlcv.candles) >= 2
    /\ Len(series) >= 8
    /\ (series[Len(series)].timestamp - series[1].timestamp) \div 60000 >= Len(series)
    /\ Len(_resample_candles(series, "5m")) >= 3

(***************************************************************************)
(* Properties of the symbol mapper                                         *)
(***************************************************************************)
\* the calls that change self.mappings
ChangesMappings(op) == op \in {"__init__", "load_mappings", "add_mapping"}

\* the pairs <<backend symbol, canonical symbol>> of a backend in the current mappings
MappedPairs(m, broker) ==
    {<<ReverseKey(m[n].value[broker], m[n].key), m[n].key>> :
        n \in {k \in 1..Len(m) : broker \in DOMAIN m[k].value}}

\* C21: after a call that changes the mappings of a mapper, the reverse index of
\* each backend is the inverse of the current mappings: every entry of the index
\* is a current mapping (none is stale), and every backend symbol that exactly
\* one canonical symbol is mapped to translates back to it (none is missing).
C21_ReverseIndexIsInverse ==
    (ChangesMappings(mres.op) /\ mres.instance \in MapperIds) =>
        LET self == mappers[mres.instance]
            m == MappingsOf(DEFAULT_MAPPINGS, self.mappings)
        IN  \A broker \in ReverseBrokers :
               LET index == self.reverse_mappings[broker]
                   current == MappedPairs(m, broker)
               IN  /\ \A key \in DOMAIN index : <<key, index[key]>> \in current
                   /\ \A p \in current :
                        (\A q \in current : q[1] = p[1] => q = p) =>
                            (p[1] \in DOMAIN index /\ index[p[1]] = p[2])

\* C29: add_mapping on one mapper leaves alone the mappings, the reverse index
\* and the translations of every other mapper, and the seed table of the class.
C29_InstancesIsolated ==
    [][(mres'.op = "add_mapping" /\ mapper_ops' = mapper_ops + 1) =>
          /\ DEFAULT_MAPPINGS' = DEFAULT_MAPPINGS
          /\ \A j \in MapperIds \ {mres'.instance} :
                /\ MappingsOf(DEFAULT_MAPPINGS', mappers'[j].mappings)
                      = MappingsOf(DEFAULT_MAPPINGS, mappers[j].mappings)
                /\ mappers'[j].reverse_mappings = mappers[j].reverse_mappings
                /\ \A pair \in TranslatedPairs, broker \in ReverseBrokers :
                      to_broker_format(MappingsOf(DEFAULT_MAPPINGS', mappers'[j].mappings),
                                       Spell(pair), broker, "NSE")
                         = to_broker_format(MappingsOf(DEFAULT_MAPPINGS,
                                                       mappers[j].mappings),
                                            Spell(pair), broker, "NSE")]_vars

(***************************************************************************)
(* Properties of the lot-size lookup                                       *)
(***************************************************************************)
\* the lot size a table configures for an underlying, 1 when it has none
Configured(table, underlying) ==
    IF InTable(table, underlying) THEN Lookup(table, underlying) ELSE 1

\* C22: for an option symbol written as underlying, date-like expiry token,
\* numeric strike and CE or PE (with or without /INR), the lookup extracts exactly
\* the underlying and returns the lot size configured for it, 1 only when the
\* underlying has none.  Stated for both lot-size managers.
C22_OptionLotSize ==
    (lookup.op = "get_lot_size" /\ lookup.expiry # <<>>) =>
        /\ lookup.base_symbol = lookup.underlying
        /\ lookup.lot_size = Configured(default_indices \cup default_stocks, lookup.underlying)
        /\ lookup.exchange_underlying = lookup.underlying
        /\ lookup.exchange_lot_size = Configured(DEFAULT_LOT_SIZES, lookup.underlying)

(***************************************************************************)
(* More properties of the request throttle                                 *)
(***************************************************************************)
\* C23: with a positive min_request_interval, any two requests recorded one after
\* the other are at least min_request_interval apart, whatever the calls and
\* however the threads interleave (no reset() was called).
C23_MinimumInterval ==
    (rl_config.min_request_interval > 0 /\ resets = 0) =>
        \A i \in 2..Len(recorded) :
            recorded[i] - recorded[i - 1] >= rl_config.min_request_interval

\* Two threads call a limiter that has only a minimum interval; the second call
\* comes one tick after the first was recorded, waits for the rest of the
\* interval and is recorded exactly one interval after the first
C23_Witness ==
    /\ rl_config = [Unlimited EXCEPT !.min_request_interval = 30]
    /\ resets = 0
    /\ Len(recorded) >= 2
    /\ Len(calls) >= 2
    /\ calls[1].thread # calls[2].thread
    /\ calls[2].at = recorded[1] + 1
    /\ calls[2].wait = rl_config.min_request_interval - 1
    /\ recorded[2] - recorded[1] = rl_config.min_request_interval

(***************************************************************************)
(* Properties of the per-endpoint throttle                                 *)
(***************************************************************************)
\* the endpoints that add_endpoint_limit calls had been made for when the first
\* n calls had returned
AddedBy(n) ==
    {e_log[j].endpoint : j \in {i \in 1..n : e_log[i].op = "add_endpoint_limit"}}

\* the calls that recorded a request in the limiter an endpoint has now
UsersOf(endpoint) ==
    {k \in 1..Len(e_log) :
        /\ e_log[k].endpoint_records > 0
        /\ e_log[k].limiter = endpoint
        /\ \A j \in (k + 1)..Len(e_log) :
              ~(e_log[j].op = "add_endpoint_limit" /\ e_log[j].endpoint = endpoint)}

\* C24: every EndpointRateLimiter.wait_if_needed(endpoint) call records exactly
\* one request in the default limiter; it records one more, in an endpoint
\* limiter, exactly when a limiter had been added for that very endpoint, and
\* returns the sum of the two waits; the requests an endpoint limiter has counted
\* are those of the calls for its own endpoint.
C24_EndpointComposition ==
    /\ \A k \in 1..Len(e_log) :
          e_log[k].op = "wait_if_needed" =>
             /\ e_log[k].default_records = 1
             /\ e_log[k].endpoint_records =
                   IF e_log[k].endpoint \in AddedBy(e_log[k].lookup_at) THEN 1 ELSE 0
             /\ e_log[k].returned = e_log[k].default_wait + e_log[k].endpoint_wait
    /\ \A endpoint \in DOMAIN endpoint_limiters :
          /\ endpoint_limiters[endpoint].total_requests = Cardinality(UsersOf(endpoint))
          /\ \A k \in UsersOf(endpoint) :
                e_log[k].op = "wait_if_needed" /\ e_log[k].endpoint = endpoint

\* After a limiter was added for "quotes", a call for "placeorder" has recorded in
\* the default limiter only, and a call for "quotes" has waited for the default
\* limiter, recorded in both limiters and returned the sum of the waits
C24_Witness ==
    \E i, j, k \in 1..Len(e_log) :
        /\ i < j /\ i < k
        /\ e_log[i].op = "add_endpoint_limit" /\ e_log[i].endpoint = "quotes"
        /\ e_log[j].op = "wait_if_needed" /\ e_log[j].endpoint = "placeorder"
        /\ e_log[j].endpoint_records = 0 /\ e_log[j].default_records = 1
        /\ e_log[k].op = "wait_if_needed" /\ e_log[k].endpoint = "quotes"
        /\ e_log[k].endpoint_records = 1
        /\ e_log[k].default_wait > 0
        /\ e_log[k].returned = e_log[k].default_wait + e_log[k].endpoint_wait
        /\ "quotes" \in DOMAIN endpoint_limiters

\* the longest wait one wait_if_needed call of a limiter may impose
LongestWait(cfg) ==
    Max2(cfg.min_request_interval,
         IF ConfiguredWindows(cfg) = {} THEN 0
         ELSE MaxOf({w[2] : w \in ConfiguredWindows(cfg)}) + Buffer)

\* C30: however the threads interleave, no call is blocked for ever: with fair
\* locks every call that has begun returns; and the wait that one
\* RateLimiter.wait_if_needed call imposes is at most the larger of
\* min_request_interval and the longest configured window plus the margin.
C30_CallsReturnWaitsBounded ==
    /\ [](\A th \in Threads :
             frames[th].limiter_wait <= LongestWait(frames[th].limiter_cfg))
    /\ \A th \in Threads : (frames[th].pc # "idle") ~> (frames[th].pc = "idle")

\* One thread sleeps in the default limiter, holding its lock, while the other
\* thread is in get_stats: it holds the lock of the EndpointRateLimiter and
\* stands before the lock of the default limiter
C30_Witness ==
    \E th, other \in Threads :
        /\ th # other
        /\ frames[th].pc = "sleeping" /\ frames[th].limiter = "default"
        /\ frames[th].limiter_wait > 0
        /\ default_limiter.lock = th
        /\ frames[other].op = "get_stats" /\ frames[other].pc = "limiter_stats"
        /\ e_lock = other
(***************************************************************************)
(* Properties of the quoted prices                                         *)
(***************************************************************************)
\* C25: for a pair without historical data, each price quoted by a ticker,
\* order-book or order request differs by at most 0.5% from the price quoted
\* before it for that pair, whatever was called in between
C25_QuotesWalkBounded ==
    [][\A pair \in Pairs :
          (/\ Synthetic(pair)
           /\ pair \in DOMAIN quoted
           /\ Quoted(res') /\ res'.pair = pair)
          => Abs(res'.price - quoted[pair]) * 1000 <= quoted[pair] * 5]_vars

\* Paperbroker.timeframes: the timeframes the paper broker advertises
timeframes ==
    {"1m", "5m", "15m", "30m", "1h", "2h", "4h", "6h", "8h", "12h", "1d", "3d", "1w"}

\* C27: for every advertised timeframe, fetch_ohlcv on a pair with historical
\* data returns candles that start on epoch-aligned multiples of that
\* timeframe, one candle per bucket of that width
C27_AdvertisedTimeframesResample ==
    (ohlcv.op = "fetch_ohlcv" /\ ohlcv.timeframe \in timeframes) =>
        LET width == TimeframeMinutes(ohlcv.timeframe) * 60000
            cs    == ohlcv.candles
        IN  /\ \A i \in 1..Len(cs) : cs[i].timestamp % width = 0
            /\ \A i \in 1..(Len(cs) - 1) : cs[i].timestamp < cs[i + 1].timestamp

(***************************************************************************)
(* Properties of the positions and the free balance                        *)
(***************************************************************************)
\* the step is a sell of create_order that filled for the pair
SellFilled(pair) ==
    /\ Len(orders') = Len(orders) + 1
    /\ orders'[Len(orders')].symbol = pair
    /\ orders'[Len(orders')].side = "sell"
    /\ orders'[Len(orders')].status = "closed"

\* C26: a sell fill reduces the cost basis of the position in proportion to
\* the amount sold: selling the fraction f of the amount held removes the
\* fraction f of the cost, so a position sold down to zero has cost zero
C26_SellReducesCostBasis ==
    [][\A pair \in DOMAIN positions :
          LET held == positions[pair].amount
              sold == orders'[Len(orders')].filled
          IN  (SellFilled(pair) /\ held > 0 /\ sold <= held)
              => /\ positions'[pair].amount = held - sold
                 /\ positions'[pair].cost * held = positions[pair].cost * (held - sold)
      ]_vars

\* C28: the free INR balance is never negative, whatever orders were placed
\* and whether they were accepted or rejected
C28_FreeBalanceNeverNegative == balance.free >= 0

\* a buy was refused for lack of funds after an earlier order had been paid for
C28_Witness ==
    /\ res.op = "create_order" /\ res.outcome = "InsufficientFunds"
    /\ Len(orders) > 0
    /\ balance.free < config.initial_balance
    /\ res.amount * res.price > balance.free

====
